---- MODULE Spec2Model ----
(***************************************************************************)
(* WinMLRunner: the typed-tensor binding dispatcher (BindingUtilities.h)   *)
(*                                                                         *)
(* and the CSV report writers (OutputHelper.h) driven by main (Main.cpp).   *)
(*                                                                         *)
(* Nine specifications share the variables:                                *)
(*   Spec        the binding dispatcher: CreateBindableTensor and          *)
(*               CreateBindableTensorFromImage applied to a descriptor and *)
(*               a source drawn in Init;                                   *)
(*   SpecCsv     one process at a time appending to the summary files,     *)
(*               with process restarts;                                    *)
(*   SpecRaw     the appends to the raw-output file, one per iteration;    *)
(*   SpecThreads NumThreads writers appending to one report file;          *)
(*   SpecOut     the public operations of one OutputHelper called in any   *)
(*               order, with a profiler that is fed samples;               *)
(*   SpecRun     main: load, bind and evaluate one model or the models of  *)
(*               a directory, then write the summary row;                  *)
(*   SpecArgs    CommandLineArgs: the setters and the predicates computed  *)
(*               from the members;                                         *)
(*   SpecSeq     OutputSequenceBinding applied to a map drawn in Init;     *)
(*   SpecMem     the vectors of one OutputHelper indexed by the iteration  *)
(*               number, across resets.                                    *)
(***************************************************************************)
EXTENDS Integers, Sequences, FiniteSets, TLC

VARIABLES
    shape,            \* TensorFeatureDescriptor.Shape() of the input being bound
    source,           \* what the tensor is built from (synthetic, csv file, image)
    result,           \* outcome of the last CreateBindableTensor[FromImage] call
    files,            \* the summary files on disk, by path
    m_csvFileName,    \* OutputHelper::m_csvFileName ("" when unset)
    m_clockLoadTime,  \* OutputHelper::m_clockLoadTime
    m_clockBindTimes, \* OutputHelper::m_clockBindTimes
    m_clockEvalTimes, \* OutputHelper::m_clockEvalTimes
    calls,            \* per path: completed appends of WritePerformanceDataToCSV
    restarts,         \* process restarts so far
    runCalls,         \* appends of WritePerformanceDataToCSV by this process
    m_csvResult,      \* OutputHelper::m_csvResult ("" when unset)
    rawFile,          \* the raw-output file on disk
    iterNo,           \* iterations written to rawFile so far
    thrFile,          \* the report file shared by the writer threads
    pc,               \* per thread: position inside the Write...ToCSV call
    bNewFile,         \* per thread: the local bNewFile of the call in progress
    written,          \* per thread: completed Write...ToCSV calls
    m_csvFileNamePerIteration, \* OutputHelper::m_csvFileNamePerIteration
    iterFile,         \* the per-iteration file on disk
    m_clockLoadTimes, \* OutputHelper::m_clockLoadTimes
    m_Result,         \* OutputHelper::m_Result
    m_Hash,           \* OutputHelper::m_Hash
    m_CPUWorkingDiff, \* OutputHelper::m_CPUWorkingDiff; m_CPUWorkingStart,
                      \* m_GPUSharedDiff, m_GPUSharedStart, m_GPUDedicatedDiff
                      \* are sized by the same statements
    profiler,         \* g_Profiler: per slot, running flag and samples
    console,          \* what PrintResults printed, one entry per call
    m_silent,         \* OutputHelper::m_silent
    results,          \* the map of a sequence output, as pairs in iteration order
    fault,            \* "none", or what an access outside a vector led to
    args,             \* CommandLineArgs of the run
    at,               \* position of main
    dir,              \* entries of args.FolderPath() not yet visited
    device,           \* device of the EvaluateModel call in progress
    iteration,        \* loop variable i of the evaluation loop
    log,              \* per configuration entered so far: what happened
    imbalanced,       \* a profiler bracket was used out of order
    hr                \* what main returns

bindVars == <<shape, source, result>>
csvVars  == <<files, m_csvFileName, m_clockLoadTime, m_clockBindTimes,
              m_clockEvalTimes, calls, restarts, runCalls>>
rawVars  == <<m_csvResult, rawFile, iterNo>>
thrVars  == <<thrFile, pc, bNewFile, written>>
outVars  == <<m_csvFileNamePerIteration, iterFile, m_clockLoadTimes, m_Result,
              m_Hash, m_CPUWorkingDiff, profiler, console, m_silent, results, fault>>
runVars  == <<args, at, dir, device, iteration, log, imbalanced, hr>>
vars     == <<bindVars, csvVars, rawVars, thrVars, outVars, runVars>>

----------------------------------------------------------------------------
(* Bounds of the model *)

MaxLineLen   == 5   \* characters of the first line of the CSV input file
MaxDim       == 3   \* largest dimension size of a descriptor shape
MaxRank      == 2   \* dimensions of a descriptor shape
MaxCount     == 6   \* largest element count of a descriptor shape
MaxPixels    == 2   \* imgWidth * imgHeight of the decoded SoftwareBitmap
MaxCalls     == 3   \* WritePerformanceDataToCSV calls in one behaviour
MaxRestarts  == 2   \* process restarts in one behaviour
MaxIter      == 3   \* iterations appended to the raw-output file
MaxElems     == 2   \* elements (or keys) of one iteration's primary output
NumThreads   == 2   \* threads writing one report file
MaxWrites    == 2   \* Write...ToCSV calls of one thread
MaxSamples   == 2   \* iterations measured by one OutputHelper
MaxOutCalls  == 2   \* report writes of one OutputHelper
MaxIterations == 3  \* largest args.NumIterations()
MaxFiles     == 2   \* entries of the model folder
MaxRunIterations == 2 \* largest argument of SetRunIterations
MaxKey       == 2   \* largest key of the map of a sequence output
MaxResets    == 2   \* resets of one OutputHelper

----------------------------------------------------------------------------
(* Values.  A number held in a binding buffer is a reduced fraction        *)
(* <<n, d>>, d > 0; the integer storage types only hold d = 1.             *)

RECURSIVE Gcd(_, _)
Gcd(a, b) == IF b = 0 THEN a ELSE Gcd(b, a % b)

Abs(x) == IF x < 0 THEN -x ELSE x

Frac(n, d) ==
    LET g == Gcd(Abs(n), d) IN
    IF n = 0 THEN <<0, 1>> ELSE <<n \div g, d \div g>>

Zero == <<0, 1>>

RECURSIVE Product(_)
Product(s) == IF s = <<>> THEN 1 ELSE Head(s) * Product(Tail(s))

RECURSIVE SeqProduct(_)
\* all sequences q with q[i] \in sets[i]
SeqProduct(sets) ==
    IF sets = <<>> THEN {<<>>}
    ELSE {<<x>> \o t : x \in Head(sets), t \in SeqProduct(Tail(sets))}

----------------------------------------------------------------------------
(* TensorKind and the storage type each switch case instantiates           *)

TensorKinds ==
    {"Undefined", "Float", "UInt8", "Int8", "UInt16", "Int16", "Int32", "Int64",
     "String", "Boolean", "Float16", "Double", "UInt32", "UInt64",
     "Complex64", "Complex128"}

NoCase == [T |-> "none", ctor |-> "none"]

\* switch (tensorDescriptor.TensorKind()) of CreateBindableTensor: the T of
\* ModelBinding<T> / WriteDataToBinding<T> and the tensor class created.
TensorCase(kind) ==
    CASE kind = "Float"   -> [T |-> "float",    ctor |-> "TensorFloat"]
      [] kind = "Float16" -> [T |-> "float",    ctor |-> "TensorFloat16Bit"]
      [] kind = "Double"  -> [T |-> "double",   ctor |-> "TensorDouble"]
      [] kind = "Int8"    -> [T |-> "uint8_t",  ctor |-> "TensorInt8Bit"]
      [] kind = "UInt8"   -> [T |-> "uint8_t",  ctor |-> "TensorUInt8Bit"]
      [] kind = "Int16"   -> [T |-> "int16_t",  ctor |-> "TensorInt16Bit"]
      [] kind = "UInt16"  -> [T |-> "uint16_t", ctor |-> "TensorUInt16Bit"]
      [] kind = "Int32"   -> [T |-> "int32_t",  ctor |-> "TensorInt32Bit"]
      [] kind = "UInt32"  -> [T |-> "uint32_t", ctor |-> "TensorUInt32Bit"]
      [] kind = "Int64"   -> [T |-> "int64_t",  ctor |-> "TensorInt64Bit"]
      [] kind = "UInt64"  -> [T |-> "uint64_t", ctor |-> "TensorUInt64Bit"]
      [] OTHER            -> NoCase

\* ImageCase with a case added for Boolean, bound as bytes
ImageCaseWithBoolean(kind) ==
    IF kind = "Boolean" THEN [T |-> "uint8_t", ctor |-> "TensorBoolean"]
    ELSE TensorCase(kind)

\* the same switch in CreateBindableTensorFromImage
ImageCase(kind) ==
    CASE kind = "Float"   -> [T |-> "float",    ctor |-> "TensorFloat"]
      [] kind = "Float16" -> [T |-> "float",    ctor |-> "TensorFloat16Bit"]
      [] kind = "Double"  -> [T |-> "double",   ctor |-> "TensorDouble"]
      [] kind = "Int8"    -> [T |-> "uint8_t",  ctor |-> "TensorInt8Bit"]
      [] kind = "UInt8"   -> [T |-> "uint8_t",  ctor |-> "TensorUInt8Bit"]
      [] kind = "Int16"   -> [T |-> "int16_t",  ctor |-> "TensorInt16Bit"]
      [] kind = "UInt16"  -> [T |-> "uint16_t", ctor |-> "TensorUInt16Bit"]
      [] kind = "Int32"   -> [T |-> "int32_t",  ctor |-> "TensorInt32Bit"]
      [] kind = "UInt32"  -> [T |-> "uint32_t", ctor |-> "TensorUInt32Bit"]
      [] kind = "Int64"   -> [T |-> "int64_t",  ctor |-> "TensorInt64Bit"]
      [] kind = "UInt64"  -> [T |-> "uint64_t", ctor |-> "TensorUInt64Bit"]
      [] OTHER            -> NoCase

IsFloating(T) == T \in {"float", "double"}

\* numeric_limits<T>::max() and min() of the 8, 16 and 32 bit storage types.
\* The 32 bit unsigned and the 64 bit types are wider than any number formed
\* here (TLC integers are 32 bit): only their sign bounds them.
TypeMax(T) ==
    CASE T = "uint8_t"  -> 255
      [] T = "int16_t"  -> 32767
      [] T = "uint16_t" -> 65535
      [] OTHER          -> 2147483647

TypeMin(T) ==
    CASE T = "int16_t"  -> -32768
      [] T \in {"int32_t", "int64_t"} -> -2147483647 - 1
      [] OTHER          -> 0

InRange(T, t) == TypeMin(T) <= t /\ t <= TypeMax(T)

\* "T value;" read without having been written: any value of T.
Indeterminate == {<<0, 1>>, <<1, 1>>}

----------------------------------------------------------------------------
(* CSV input: ReadCsvLine and operator>> of std::stringstream              *)

Alphabet == {"1", ".", ","}
Digits   == {"1"}

DigitVal(c) == IF c = "1" THEN 1 ELSE 0

CharCode(c) == CASE c = "1" -> 49 [] c = "." -> 46 [] OTHER -> 44

RECURSIVE Pow10(_)
Pow10(k) == IF k = 0 THEN 1 ELSE 10 * Pow10(k - 1)

RECURSIVE DigitsPrefix(_)
DigitsPrefix(s) ==
    IF s # <<>> /\ Head(s) \in Digits
    THEN <<Head(s)>> \o DigitsPrefix(Tail(s)) ELSE <<>>

RECURSIVE NumOf(_)
NumOf(ds) ==
    IF ds = <<>> THEN 0
    ELSE 10 * NumOf(SubSeq(ds, 1, Len(ds) - 1)) + DigitVal(ds[Len(ds)])

RECURSIVE UpTo(_, _)
\* the characters of s before the first c
UpTo(s, c) ==
    IF s = <<>> \/ Head(s) = c THEN <<>> ELSE <<Head(s)>> \o UpTo(Tail(s), c)

RECURSIVE SplitLine(_)
\* while (std::getline(elementsString, elementString, ',')) push_back:
\* nothing is pushed for what follows the last comma when that is empty.
SplitLine(line) ==
    IF line = <<>> THEN <<>>
    ELSE LET tok  == UpTo(line, ",")
             rest == SubSeq(line, Len(tok) + 2, Len(line))
         IN  <<tok>> \o SplitLine(rest)

\* std::stringstream(elementString) >> value, value of a floating type:
\* digits [. digits]; no digit at all fails and stores 0.
ParseFloating(s) ==
    LET ip   == DigitsPrefix(s)
        rest == SubSeq(s, Len(ip) + 1, Len(s))
        fp   == IF rest # <<>> /\ Head(rest) = "."
                THEN DigitsPrefix(Tail(rest)) ELSE <<>>
    IN  IF ip = <<>> /\ fp = <<>> THEN Zero
        ELSE Frac(NumOf(ip \o fp), Pow10(Len(fp)))

\* ... value of an integer type wider than a char: the leading digits; none
\* fails and stores 0, a number above max() fails and stores max().
ParseInteger(T, s) ==
    LET ip == DigitsPrefix(s)
        n  == NumOf(ip)
    IN  IF ip = <<>> THEN Zero
        ELSE IF n > TypeMax(T) THEN <<TypeMax(T), 1>> ELSE <<n, 1>>

\* The values "T value; std::stringstream(elementString) >> value;" can leave
\* in value.  An empty string fails in the sentry and value is not written;
\* a uint8_t is extracted as one character.
ParseValue(T, s) ==
    IF s = <<>> THEN Indeterminate
    ELSE IF T = "uint8_t" THEN {<<CharCode(Head(s)), 1>>}
    ELSE IF IsFloating(T) THEN {ParseFloating(s)}
    ELSE {ParseInteger(T, s)}

----------------------------------------------------------------------------
(* ModelBinding<T>: the buffer of a descriptor                             *)

\* ModelBinding<T>::GetDataBufferSize(): the product of the shape dimensions
GetDataBufferSize(shp) == Product(shp)

\* the data buffer of a freshly constructed ModelBinding<T>
NewDataBuffer(shp) == [i \in 1..GetDataBufferSize(shp) |-> Zero]

NoTensor == [ctor |-> "none", shape |-> <<>>, data |-> <<>>]

\* TensorX::CreateFromArray(binding.GetShapeBuffer(), binding.GetDataBuffer())
CreateFromArray(ctor, shp, data) == [ctor |-> ctor, shape |-> shp, data |-> data]

Outcome(fn, kind, status, tensor, data) ==
    [fn |-> fn, kind |-> kind, status |-> status, tensor |-> tensor, data |-> data]

----------------------------------------------------------------------------
(* WriteDataToBinding and CreateBindableTensor                             *)

\* What a call leaves behind: whether it threw hresult_invalid_argument, and
\* the contents the binding buffer can have when it ends.
Written(thrown, datas) == [thrown |-> thrown, datas |-> datas]

\* WriteDataToBinding with the size test weakened to "the row does not fit":
\* a shorter row is written and the rest of the buffer keeps its padding.
WriteDataToBindingPadding(T, elementStrings, data0) ==
    IF Len(data0) < Len(elementStrings)
    THEN Written(TRUE, {data0})
    ELSE Written(FALSE,
                 SeqProduct([i \in 1..Len(data0) |->
                                IF i <= Len(elementStrings)
                                THEN ParseValue(T, elementStrings[i])
                                ELSE {data0[i]}]))

WriteDataToBinding(T, elementStrings, data0) ==
    IF Len(data0) # Len(elementStrings)
    THEN Written(TRUE, {data0})
    ELSE Written(FALSE,
                 SeqProduct([i \in 1..Len(elementStrings) |->
                                ParseValue(T, elementStrings[i])]))

\* SyntheticElementStrings off by one
SyntheticElementStringsOffByOne(n) == [i \in 1..(n + 1) |-> <<>>]

\* std::vector<std::string>(binding.GetDataBufferSize()): empty strings
SyntheticElementStrings(n) == [i \in 1..n |-> <<>>]

\* ParseCSVElementStrings: ThrowFailure when the file cannot be opened or has
\* no line, else the elements of its first line.
ParseCSVElementStrings(src) ==
    IF ~src.open \/ src.rows = <<>>
    THEN [failed |-> TRUE, elems |-> <<>>]
    ELSE [failed |-> FALSE, elems |-> SplitLine(src.rows[1])]

CreateBindableTensor(kind, shp, src) ==
    LET fn    == "CreateBindableTensor"
        c     == TensorCase(kind)
        data0 == NewDataBuffer(shp)
        csv   == ParseCSVElementStrings(src)
        es    == IF src.type = "synthetic"
                 THEN SyntheticElementStrings(GetDataBufferSize(shp))
                 ELSE csv.elems
        w     == WriteDataToBinding(c.T, es, data0)
    IN  IF kind = "Undefined"
        THEN {Outcome(fn, kind, "invalid_argument", NoTensor, <<>>)}
        ELSE IF c = NoCase
        THEN {Outcome(fn, kind, "not_implemented", NoTensor, <<>>)}
        ELSE IF src.type # "synthetic" /\ csv.failed
        THEN {Outcome(fn, kind, "failure", NoTensor, data0)}
        ELSE IF w.thrown
        THEN {Outcome(fn, kind, "invalid_argument", NoTensor, d) : d \in w.datas}
        ELSE {Outcome(fn, kind, "ok", CreateFromArray(c.ctor, shp, d), d) :
                 d \in w.datas}

----------------------------------------------------------------------------
(* PreProcessImageToBinding and CreateBindableTensorFromImage              *)

\* truncation toward zero of the fraction q
Trunc(q) == IF q[1] < 0 THEN -((-q[1]) \div q[2]) ELSE q[1] \div q[2]

\* "bindingData[i] = <float expression>": the conversion to T.  A value
\* whose truncation T cannot hold is undefined behaviour.
Narrow(T, q) ==
    IF IsFloating(T) THEN {q}
    ELSE IF InRange(T, Trunc(q)) THEN {<<Trunc(q), 1>>}
    ELSE Indeterminate

\* (sbBufferData[count + c] - meanStdDev[c]) / scale
Normalize(pixel, mean, scale) == Frac(pixel - mean, scale)

\* PreProcessImageToBinding with the size test weakened to "the image does
\* not fit": a larger buffer is accepted and its tail keeps its padding.
PreProcessImageToBindingPadding(T, img, data0, scale, meanStdDev) ==
    LET hw         == img.h * img.w
        resultSize == hw * 3
        chan(k)    == ((k - 1) \div hw) + 1
        pos(k)     == ((k - 1) % hw) + 1
    IN  IF Len(data0) < resultSize
        THEN Written(TRUE, {data0})
        ELSE IF scale # 1 /\
                (meanStdDev[1] # 0 \/ meanStdDev[2] # 0 \/ meanStdDev[3] # 0)
        THEN Written(FALSE,
                 SeqProduct([k \in 1..Len(data0) |->
                     IF k <= resultSize
                     THEN Narrow(T, Normalize(img.px[4 * (pos(k) - 1) + chan(k)],
                                              meanStdDev[chan(k)], scale))
                     ELSE {data0[k]}]))
        ELSE Written(FALSE, {data0})

\* PreProcessImageToBinding without the test of scale and meanStdDev: the
\* pixels are always rolled into the buffer.
PreProcessImageToBindingAlways(T, img, data0, scale, meanStdDev) ==
    LET hw         == img.h * img.w
        resultSize == hw * 3
        chan(k)    == ((k - 1) \div hw) + 1
        pos(k)     == ((k - 1) % hw) + 1
    IN  IF Len(data0) # resultSize
        THEN Written(TRUE, {data0})
        ELSE Written(FALSE,
                 SeqProduct([k \in 1..resultSize |->
                     Narrow(T, Normalize(img.px[4 * (pos(k) - 1) + chan(k)],
                                         meanStdDev[chan(k)], scale))]))

PreProcessImageToBinding(T, img, data0, scale, meanStdDev) ==
    LET hw         == img.h * img.w
        resultSize == hw * 3
        chan(k)    == ((k - 1) \div hw) + 1
        pos(k)     == ((k - 1) % hw) + 1
    IN  IF Len(data0) # resultSize
        THEN Written(TRUE, {data0})
        ELSE IF scale # 1 /\
                (meanStdDev[1] # 0 \/ meanStdDev[2] # 0 \/ meanStdDev[3] # 0)
        THEN Written(FALSE,
                 SeqProduct([k \in 1..resultSize |->
                     Narrow(T, Normalize(img.px[4 * (pos(k) - 1) + chan(k)],
                                         meanStdDev[chan(k)], scale))]))
        ELSE Written(FALSE, {data0})

CreateBindableTensorFromImage(kind, shp, src) ==
    LET fn    == "CreateBindableTensorFromImage"
        c     == ImageCase(kind)
        data0 == NewDataBuffer(shp)
        w     == PreProcessImageToBinding(c.T, src.img, data0, src.scale, src.mean)
    IN  IF kind = "Undefined"
        THEN {Outcome(fn, kind, "invalid_argument", NoTensor, <<>>)}
        ELSE IF c = NoCase
        THEN {Outcome(fn, kind, "not_implemented", NoTensor, <<>>)}
        ELSE IF ~src.open
        THEN {Outcome(fn, kind, "null_bitmap", NoTensor, data0)}
        ELSE IF w.thrown
        THEN {Outcome(fn, kind, "invalid_argument", NoTensor, d) : d \in w.datas}
        ELSE {Outcome(fn, kind, "ok", CreateFromArray(c.ctor, shp, d), d) :
                 d \in w.datas}

----------------------------------------------------------------------------
(* The binding dispatcher as a state machine: Init draws the descriptor    *)
(* shape and the source; each action is one call of the dispatcher.        *)

Shapes ==
    {s \in UNION {[1..r -> 1..MaxDim] : r \in 1..MaxRank} : Product(s) <= MaxCount}

Lines == UNION {[1..k -> Alphabet] : k \in 0..MaxLineLen}

\* BGRA8 / RGBA8 pixels of the SoftwareBitmap, 4 bytes each
PixelSet == {<<1, 2, 3, 255>>, <<7, 4, 9, 255>>}
Scales   == {1, 2}
Means    == {<<0, 0, 0>>, <<1, 0, 0>>, <<0, 2, 0>>, <<9, 9, 9>>}

RECURSIVE Flatten(_)
Flatten(ss) == IF ss = <<>> THEN <<>> ELSE Head(ss) \o Flatten(Tail(ss))

NoImage == [w |-> 0, h |-> 0, px |-> <<>>]

Images ==
    UNION {{[w |-> d[1], h |-> d[2], px |-> Flatten(f)] :
               f \in [1..(d[1] * d[2]) -> PixelSet]} :
           d \in {e \in (1..MaxPixels) \X (1..MaxPixels) : e[1] * e[2] <= MaxPixels}}

Src(type, open, rows, img, scale, mean) ==
    [type |-> type, open |-> open, rows |-> rows, img |-> img,
     scale |-> scale, mean |-> mean]

Sources ==
    {Src("synthetic", FALSE, <<>>, NoImage, 1, <<0, 0, 0>>)}
    \cup {Src("csv", FALSE, <<>>, NoImage, 1, <<0, 0, 0>>)}
    \cup {Src("csv", TRUE, rows, NoImage, 1, <<0, 0, 0>>) :
             rows \in {<<>>} \cup {<<l>> : l \in Lines}}
    \cup {Src("image", FALSE, <<>>, NoImage, sc, m) : sc \in Scales, m \in Means}
    \cup {Src("image", TRUE, <<>>, img, sc, m) :
             img \in Images, sc \in Scales, m \in Means}

NoResult == Outcome("none", "none", "pending", NoTensor, <<>>)

IdleBind ==
    /\ shape = <<1>>
    /\ source = Src("synthetic", FALSE, <<>>, NoImage, 1, <<0, 0, 0>>)
    /\ result = NoResult

IdleCsv ==
    /\ files = <<>>
    /\ m_csvFileName = ""
    /\ m_clockLoadTime = Zero
    /\ m_clockBindTimes = <<>>
    /\ m_clockEvalTimes = <<>>
    /\ calls = <<>>
    /\ restarts = 0
    /\ runCalls = 0

IdleRaw ==
    /\ m_csvResult = ""
    /\ rawFile = <<>>
    /\ iterNo = 0

IdleThr ==
    /\ thrFile = <<>>
    /\ pc = <<>>
    /\ bNewFile = <<>>
    /\ written = <<>>

IdleOut ==
    /\ m_csvFileNamePerIteration = ""
    /\ iterFile = <<>>
    /\ m_clockLoadTimes = <<>>
    /\ m_Result = <<>>
    /\ m_Hash = <<>>
    /\ m_CPUWorkingDiff = <<>>
    /\ profiler = <<>>
    /\ console = <<>>
    /\ m_silent = FALSE
    /\ results = <<>>
    /\ fault = "none"

IdleRun ==
    /\ args = <<>>
    /\ at = "idle"
    /\ dir = <<>>
    /\ device = "none"
    /\ iteration = 0
    /\ log = <<>>
    /\ imbalanced = FALSE
    /\ hr = "none"

Init ==
    /\ shape \in Shapes
    /\ source \in Sources
    /\ result = NoResult
    /\ IdleCsv
    /\ IdleRaw
    /\ IdleThr
    /\ IdleOut
    /\ IdleRun

\* BindCSVDataToContext / BindGarbageDataToContext: one input of the model
BindTensor(kind) ==
    /\ source.type \in {"synthetic", "csv"}
    /\ \E r \in CreateBindableTensor(kind, shape, source) : result' = r
    /\ UNCHANGED <<shape, source>>
    /\ UNCHANGED <<csvVars, rawVars, thrVars, outVars, runVars>>

\* BindImageToContext: one input of the model
BindTensorFromImage(kind) ==
    /\ source.type = "image"
    /\ \E r \in CreateBindableTensorFromImage(kind, shape, source) : result' = r
    /\ UNCHANGED <<shape, source>>
    /\ UNCHANGED <<csvVars, rawVars, thrVars, outVars, runVars>>

Next ==
    \/ \E kind \in TensorKinds : BindTensor(kind)
    \/ \E kind \in TensorKinds : BindTensorFromImage(kind)

Spec == Init /\ [][Next]_vars

----------------------------------------------------------------------------
(* Properties of the binding dispatcher                                    *)

SupportedKinds ==
    {"Float", "Float16", "Double", "Int8", "UInt8", "Int16", "UInt16",
     "Int32", "UInt32", "Int64", "UInt64"}

UnimplementedKinds == {"String", "Boolean", "Complex64", "Complex128"}

\* the call that produced result was given a CSV file whose first row exists
CsvRowBound ==
    /\ result.fn = "CreateBindableTensor"
    /\ source.type = "csv" /\ source.open /\ source.rows # <<>>

\* the call that produced result was given a decoded image
ImageBound ==
    /\ result.fn = "CreateBindableTensorFromImage"
    /\ source.type = "image" /\ source.open

AllZero(data) == \A i \in 1..Len(data) : data[i] = Zero

\* C1: for every supported kind, a CSV row whose element count differs from
\* the binding's element count fails with invalid-argument: no tensor is
\* returned and the binding buffer holds nothing of the row (it still has
\* its declared length and its initial contents).
C1_CsvSizeMismatchFails ==
    (/\ CsvRowBound
     /\ result.kind \in SupportedKinds
     /\ Len(SplitLine(source.rows[1])) # GetDataBufferSize(shape))
    => /\ result.status = "invalid_argument"
       /\ result.tensor = NoTensor
       /\ Len(result.data) = GetDataBufferSize(shape)
       /\ AllZero(result.data)

\* a row of 3 elements offered to a binding of 2 elements, kind Int16
C1_Witness ==
    /\ CsvRowBound
    /\ result.kind = "Int16"
    /\ Len(SplitLine(source.rows[1])) = 3
    /\ Product(shape) = 2
    /\ result.status = "invalid_argument"

\* C2: for every supported kind, CreateBindableTensor with an empty CSV path
\* succeeds and returns a tensor of the declared shape whose element count is
\* the product of the shape dimensions.
C2_SyntheticCountIsShapeProduct ==
    (/\ result.fn = "CreateBindableTensor"
     /\ source.type = "synthetic"
     /\ result.kind \in SupportedKinds)
    => /\ result.status = "ok"
       /\ result.tensor.shape = shape
       /\ Len(result.tensor.data) = Product(shape)

\* a synthetic UInt64 tensor of 6 elements was built
C2_Witness ==
    /\ result.fn = "CreateBindableTensor"
    /\ source.type = "synthetic"
    /\ result.kind = "UInt64"
    /\ Product(shape) = 6
    /\ result.status = "ok"

\* C3: binding fails and returns no tensor for every kind outside the
\* supported table, in both dispatchers: Undefined with invalid-argument,
\* String, Boolean, Complex64 and Complex128 with not-implemented.
C3_UnsupportedKindsFail ==
    /\ result.kind = "Undefined"
         => result.status = "invalid_argument" /\ result.tensor = NoTensor
    /\ result.kind \in UnimplementedKinds
         => result.status = "not_implemented" /\ result.tensor = NoTensor

\* the image dispatcher was called for a Boolean descriptor and a decoded
\* image whose size fits the descriptor
C3_Witness ==
    /\ ImageBound
    /\ result.kind = "Boolean"
    /\ Product(shape) = source.img.h * source.img.w * 3
    /\ result.status = "not_implemented"

\* C4 (as claimed): after PreProcessImageToBinding on a packed 4-channel
\* image of width W and height H the buffer is planar, element
\* [c*W*H + i] = (pixel[4*i + c] - offset[c]) / scale, for every scale and
\* every offset triple.  Stated for the floating kinds, which store the
\* quotient without narrowing.
C4_PlanarForEveryScaleAndOffset ==
    (/\ ImageBound
     /\ result.kind \in {"Float", "Float16", "Double"}
     /\ result.status = "ok")
    => LET hw == source.img.w * source.img.h IN
       \A i \in 0..(hw - 1) : \A c \in 0..2 :
          result.data[c * hw + i + 1] =
             Frac(source.img.px[4 * i + c + 1] - source.mean[c + 1], source.scale)

\* C5: PreProcessImageToBinding fails with invalid-argument whenever the
\* binding's element count differs from imageHeight * imageWidth * 3, and the
\* buffer is as it was before the call: nothing of the image was written,
\* truncated or padded into it.
C5_ImageSizeMismatchFails ==
    (/\ ImageBound
     /\ result.kind \in SupportedKinds
     /\ GetDataBufferSize(shape) # source.img.h * source.img.w * 3)
    => /\ result.status = "invalid_argument"
       /\ result.tensor = NoTensor
       /\ Len(result.data) = GetDataBufferSize(shape)
       /\ AllZero(result.data)

\* a 1x1 image (3 values) offered to a Double binding of 6 elements, with a
\* scale and offsets that make the call write
C5_Witness ==
    /\ ImageBound
    /\ result.kind = "Double"
    /\ source.img.h * source.img.w = 1
    /\ Product(shape) = 6
    /\ source.scale = 2 /\ source.mean = <<1, 0, 0>>
    /\ result.status = "invalid_argument"

C28_WritesOnlyWhenScaledAndOffset ==
    (/\ ImageBound
     /\ result.kind # "Undefined" /\ ImageCase(result.kind) # NoCase
     /\ GetDataBufferSize(shape) = source.img.h * source.img.w * 3
     /\ (source.scale = 1 \/ source.mean = <<0, 0, 0>>))
    => /\ result.status = "ok"
       /\ result.data = NewDataBuffer(shape)
       /\ result.tensor.data = NewDataBuffer(shape)

\* a Float binding of the size of the image, bound with scale 2 and offsets
\* all 0: the tensor is created and holds none of the (non-zero) pixels
C28_Witness ==
    /\ ImageBound
    /\ result.kind = "Float"
    /\ result.status = "ok"
    /\ source.scale = 2 /\ source.mean = <<0, 0, 0>>
    /\ \A k \in 1..Len(source.img.px) : source.img.px[k] # 0
    /\ Len(result.data) = source.img.h * source.img.w * 3
    /\ AllZero(result.data)

----------------------------------------------------------------------------
(* OutputHelper: the summary file                                          *)

\* doubles: a fraction <<n, d>> with d > 0, NaN, or +infinity
NaN == <<0, 0>>
Inf == <<1, 0>>

isnan(x) == x = NaN

AddD(x, y) ==
    IF isnan(x) \/ isnan(y) THEN NaN
    ELSE IF x = Inf \/ y = Inf THEN Inf
    ELSE Frac(x[1] * y[2] + y[1] * x[2], x[2] * y[2])

\* x / (double)n, n an unsigned count
DivD(x, n) ==
    IF isnan(x) THEN NaN
    ELSE IF x = Inf THEN Inf
    ELSE IF n = 0 THEN (IF x[1] = 0 THEN NaN ELSE Inf)
    ELSE Frac(x[1], x[2] * n)

RECURSIVE Accumulate(_)
\* std::accumulate(v.begin(), v.end(), 0.0)
Accumulate(v) == IF v = <<>> THEN Zero ELSE AddD(Head(v), Accumulate(Tail(v)))

\* the text "fout << x" writes for a double
FmtD(x) ==
    IF isnan(x) THEN "nan"
    ELSE IF x = Inf THEN "inf"
    ELSE IF x[2] = 1 THEN ToString(x[1])
    ELSE ToString(x[1]) \o "/" \o ToString(x[2])

\* std::to_string(x)
to_string(x) == FmtD(x) \o ".000000"

\* "fout << b" for a bool
FmtBool(b) == IF b THEN "1" ELSE "0"

Header ==
    <<"Model Name", "Model Binding", "Input Binding", "Input Type",
      "Device Creation Location", "Iterations", "First Run Ignored",
      "Load (ms)", "Bind (ms)", "Evaluate (ms)", "Total Time (ms)",
      "Working Set Memory usage (evaluate) (MB)",
      "GPU Dedicated memory usage (evaluate) (MB)",
      "GPU Shared memory usage (evaluate) (MB)",
      "Wall-clock Load (ms)", "Wall-clock Bind (ms)",
      "Wall-clock Evaluate (ms)", "Wall-clock total time (ms)",
      "PerIterationFile", "ResultFile">>

\* profiler[...].GetAverage(...): the six averages the writer reads
Averages(load, bind, eval, mem, gpuShared, gpuDedicated) ==
    [loadTime |-> load, bindTime |-> bind, evalTime |-> eval,
     evalMemoryUsage |-> mem, gpuEvalSharedMemoryUsage |-> gpuShared,
     gpuEvalDedicatedMemoryUsage |-> gpuDedicated]

\* the data line with the load average always written as a number
SummaryRowLoadAsNumber(avg, numIterations, model, modelBinding, inputBinding, inputType, deviceCreationLocation, firstRunIgnored) ==
    LET clockBindTime == DivD(Accumulate(m_clockBindTimes), numIterations)
        clockEvalTime == DivD(Accumulate(m_clockEvalTimes), numIterations)
        loadTime      == IF isnan(avg.loadTime) THEN Zero ELSE avg.loadTime
        totalTime     == AddD(AddD(loadTime, avg.bindTime), avg.evalTime)
    IN  <<model, modelBinding, inputBinding, inputType, deviceCreationLocation,
          ToString(numIterations), FmtBool(firstRunIgnored),
          to_string(loadTime),
          FmtD(avg.bindTime), FmtD(avg.evalTime), FmtD(totalTime),
          FmtD(avg.evalMemoryUsage),
          FmtD(avg.gpuEvalDedicatedMemoryUsage),
          FmtD(avg.gpuEvalSharedMemoryUsage),
          FmtD(m_clockLoadTime), FmtD(clockBindTime), FmtD(clockEvalTime),
          FmtD(AddD(AddD(m_clockLoadTime, clockBindTime), clockEvalTime)),
          m_csvFileNamePerIteration, m_csvResult>>

\* the data line of WritePerformanceDataToCSV
SummaryRow(avg, numIterations, model, modelBinding, inputBinding, inputType, deviceCreationLocation, firstRunIgnored) ==
    LET clockBindTime == DivD(Accumulate(m_clockBindTimes), numIterations)
        clockEvalTime == DivD(Accumulate(m_clockEvalTimes), numIterations)
        totalTime     == AddD(AddD(IF isnan(avg.loadTime) THEN Zero
                                   ELSE avg.loadTime, avg.bindTime),
                              avg.evalTime)
    IN  <<model, modelBinding, inputBinding, inputType, deviceCreationLocation,
          ToString(numIterations), FmtBool(firstRunIgnored),
          IF isnan(avg.loadTime) THEN "N/A" ELSE to_string(avg.loadTime),
          FmtD(avg.bindTime), FmtD(avg.evalTime), FmtD(totalTime),
          FmtD(avg.evalMemoryUsage),
          FmtD(avg.gpuEvalDedicatedMemoryUsage),
          FmtD(avg.gpuEvalSharedMemoryUsage),
          FmtD(m_clockLoadTime), FmtD(clockBindTime), FmtD(clockEvalTime),
          FmtD(AddD(AddD(m_clockLoadTime, clockBindTime), clockEvalTime)),
          m_csvFileNamePerIteration, m_csvResult>>

File(exists, lines) == [exists |-> exists, lines |-> lines]

\* IsNewFile decided from memory instead of the file: the first append of
\* this process writes the header
IsNewFileFirstAppendOfProcess(f) == runCalls = 0

\* "Check if header exists": EOF == outbuf->sbumpc() on the file opened for
\* reading; a file that cannot be opened reads as EOF too.
IsNewFile(f) == ~f.exists \/ f.lines = <<>>

\* fout.open(name, std::ios_base::app); header if bNewFile; the data line
AppendSummary(f, row) ==
    File(TRUE, f.lines \o (IF IsNewFile(f) THEN <<Header>> ELSE <<>>) \o <<row>>)

Paths   == {"a.csv", "b.csv"}
Devices == {"CPU", "GPU"}

\* averages the profiler can report: every slot measured, or the load slot
\* and the GPU memory counters without a sample
ProfilerAverages ==
    {Averages(<<5, 1>>, <<2, 1>>, <<3, 1>>, <<1, 1>>, Zero, Zero),
     Averages(NaN, <<2, 1>>, <<3, 1>>, <<1, 1>>, NaN, NaN)}

RECURSIVE SumOver(_, _)
SumOver(f, S) ==
    IF S = {} THEN 0
    ELSE LET x == CHOOSE y \in S : TRUE IN f[x] + SumOver(f, S \ {x})

InitCsv ==
    /\ files \in [Paths -> {File(FALSE, <<>>), File(TRUE, <<>>)}]
    /\ m_csvFileName = ""
    /\ m_clockLoadTime = Zero
    /\ m_clockBindTimes = <<>>
    /\ m_clockEvalTimes = <<>>
    /\ calls = [p \in Paths |-> 0]
    /\ restarts = 0
    /\ runCalls = 0
    /\ IdleBind /\ IdleRaw /\ IdleThr /\ IdleOut /\ IdleRun

\* SetCSVFileName(fileName)
SetCSVFileName(fileName) ==
    /\ m_csvFileName' = fileName
    /\ UNCHANGED <<files, m_clockLoadTime, m_clockBindTimes, m_clockEvalTimes,
                   calls, restarts, runCalls>>
    /\ UNCHANGED <<bindVars, rawVars, thrVars, outVars, runVars>>

\* SetDefaultCSVFileName(): the name is made of the local time
SetDefaultCSVFileName ==
    /\ \E fileName \in Paths : m_csvFileName' = fileName
    /\ UNCHANGED <<files, m_clockLoadTime, m_clockBindTimes, m_clockEvalTimes,
                   calls, restarts, runCalls>>
    /\ UNCHANGED <<bindVars, rawVars, thrVars, outVars, runVars>>

WritePerformanceDataToCSV(avg, numIterations, model, modelBinding, inputBinding, inputType, deviceCreationLocation, firstRunIgnored) ==
    /\ IF m_csvFileName # ""
       THEN /\ SumOver(calls, Paths) < MaxCalls
            /\ files' = [files EXCEPT ![m_csvFileName] =
                   AppendSummary(@, SummaryRow(avg, numIterations, model,
                                     modelBinding, inputBinding, inputType,
                                     deviceCreationLocation, firstRunIgnored))]
            /\ calls' = [calls EXCEPT ![m_csvFileName] = @ + 1]
            /\ runCalls' = runCalls + 1
       ELSE UNCHANGED <<files, calls, runCalls>>
    /\ UNCHANGED <<m_csvFileName, m_clockLoadTime, m_clockBindTimes,
                   m_clockEvalTimes, restarts>>
    /\ UNCHANGED <<bindVars, rawVars, thrVars, outVars, runVars>>

\* the process ends and a new one constructs its OutputHelper; the files stay
Restart ==
    /\ restarts < MaxRestarts
    /\ restarts' = restarts + 1
    /\ runCalls' = 0
    /\ m_csvFileName' = ""
    /\ m_clockLoadTime' = Zero
    /\ m_clockBindTimes' = <<>>
    /\ m_clockEvalTimes' = <<>>
    /\ UNCHANGED <<files, calls>>
    /\ UNCHANGED <<bindVars, rawVars, thrVars, outVars, runVars>>

NextCsv ==
    \/ \E fileName \in Paths : SetCSVFileName(fileName)
    \/ SetDefaultCSVFileName
    \/ \E avg \in ProfilerAverages, dev \in Devices :
          WritePerformanceDataToCSV(avg, 1, "model.onnx", dev, "CPU", "Tensor",
                                    "WinML", FALSE)
    \/ Restart

SpecCsv == InitCsv /\ [][NextCsv]_vars

----------------------------------------------------------------------------
(* Properties of the summary file                                          *)

DataLines(f) == SubSeq(f.lines, 2, Len(f.lines))

\* C7: after N sequential WritePerformanceDataToCSV calls to one summary
\* path, spread over any number of process restarts and starting from an
\* absent or empty file, the file holds exactly 1 header line followed by
\* exactly N data lines.
C7_OneHeaderThenNRows ==
    \A p \in Paths :
       IF calls[p] = 0 THEN files[p].lines = <<>>
       ELSE /\ Len(files[p].lines) = calls[p] + 1
            /\ files[p].lines[1] = Header
            /\ \A i \in 2..Len(files[p].lines) : files[p].lines[i] # Header

\* three rows in a.csv, written by three processes (two restarts)
C7_Witness ==
    /\ calls["a.csv"] = 3
    /\ restarts = 2
    /\ runCalls = 1
    /\ Len(files["a.csv"].lines) = 4

\* C10 (as claimed): the summary file has one fixed header that later
\* appends never change, and a CPU-device row holds "N/A" in the GPU
\* dedicated and GPU shared memory columns (13 and 14).
C10_InapplicableColumnsHoldNA ==
    \A p \in Paths :
       /\ files[p].lines # <<>> => files[p].lines[1] = Header
       /\ \A i \in 2..Len(files[p].lines) :
             files[p].lines[i][2] = "CPU"
                => /\ files[p].lines[i][13] = "N/A"
                   /\ files[p].lines[i][14] = "N/A"

----------------------------------------------------------------------------
(* OutputHelper: the raw-output file.  A line is the sequence of the pieces *)
(* written to it, the "," delimiters included.                             *)

RECURSIVE ResultColumns(_, _)
\* for (i = 0; i < m_Res.Size(); i++) fout << "Result[" << i << "]" << ",";
ResultColumns(i, n) ==
    IF i >= n THEN <<>>
    ELSE <<"Result[" \o ToString(i) \o "]", ",">> \o ResultColumns(i + 1, n)

RECURSIVE ResultCells(_)
\* for (i = 0; i < m_Res.Size(); i++) fout << m_Res.GetAt(i) << ",";
ResultCells(res) ==
    IF res = <<>> THEN <<>>
    ELSE <<ToString(Head(res)), ",">> \o ResultCells(Tail(res))

RECURSIVE KeyColumns(_)
\* fout << "Key[" << pair.Key() << "]" << ","  for every pair of the map
KeyColumns(pairs) ==
    IF pairs = <<>> THEN <<>>
    ELSE <<"Key[" \o ToString(Head(pairs)[1]) \o "]", ",">>
         \o KeyColumns(Tail(pairs))

RECURSIVE KeyCells(_)
\* fout << pair.Key() << ";" << pair.Value() << ","  for every pair
KeyCells(pairs) ==
    IF pairs = <<>> THEN <<>>
    ELSE <<ToString(Head(pairs)[1]) \o ";" \o ToString(Head(pairs)[2]), ",">>
         \o KeyCells(Tail(pairs))

\* the cells of a line, read the way ReadCsvLine reads one
Cells(line) == SplitLine(line)

\* primary outputs of an iteration: a numeric tensor, a string tensor, or the
\* first map of a sequence (its pairs in key order)
TensorResults == UNION {[1..n -> {7}] : n \in 0..MaxElems}
StringResults == UNION {[1..n -> {"label"}] : n \in 1..MaxElems}
RECURSIVE PairsInKeyOrder(_)
PairsInKeyOrder(keys) ==
    IF keys = {} THEN <<>>
    ELSE LET k == CHOOSE x \in keys : \A y \in keys : x <= y
         IN  <<<<k, 7>>>> \o PairsInKeyOrder(keys \ {k})

MapResults == {PairsInKeyOrder(keys) : keys \in SUBSET (1..MaxElems)}

InitRaw ==
    /\ m_csvResult \in {"", "Result.csv"}
    /\ rawFile \in {File(FALSE, <<>>), File(TRUE, <<>>)}
    /\ iterNo = 0
    /\ IdleBind /\ IdleCsv /\ IdleThr /\ IdleOut /\ IdleRun

\* header if bNewFile, then the line of this iteration
AppendRaw(f, header, row) ==
    File(TRUE, f.lines \o (IF IsNewFile(f) THEN <<header>> ELSE <<>>) \o <<row>>)

\* WriteTensorResultToCSV without the test of m_csvResult
WriteTensorResultToCSVWithoutPathTest(m_Res, IterNo) ==
    /\ iterNo < MaxIter
    /\ iterNo' = IterNo
    /\ rawFile' = AppendRaw(rawFile,
                <<"IterationNumber ", ",">> \o ResultColumns(0, Len(m_Res)),
                <<ToString(IterNo), ",">> \o ResultCells(m_Res))
    /\ UNCHANGED m_csvResult
    /\ UNCHANGED <<bindVars, csvVars, thrVars, outVars, runVars>>

\* template<typename T> WriteTensorResultToCSV(m_Res, IterNo)
WriteTensorResultToCSV(m_Res, IterNo) ==
    /\ iterNo < MaxIter
    /\ iterNo' = IterNo
    /\ IF m_csvResult # ""
       THEN rawFile' = AppendRaw(rawFile,
                <<"IterationNumber ", ",">> \o ResultColumns(0, Len(m_Res)),
                <<ToString(IterNo), ",">> \o ResultCells(m_Res))
       ELSE UNCHANGED rawFile
    /\ UNCHANGED m_csvResult
    /\ UNCHANGED <<bindVars, csvVars, thrVars, outVars, runVars>>

\* template<> WriteTensorResultToCSV(IVectorView<hstring>& m_Res, IterNo)
WriteStringResultToCSV(m_Res, IterNo) ==
    /\ iterNo < MaxIter
    /\ iterNo' = IterNo
    /\ IF m_csvResult # ""
       THEN rawFile' = AppendRaw(rawFile,
                <<"IterationNumber ", ",", "Result[0]", ",">>,
                <<ToString(IterNo), ",", m_Res[1]>>)
       ELSE UNCHANGED rawFile
    /\ UNCHANGED m_csvResult
    /\ UNCHANGED <<bindVars, csvVars, thrVars, outVars, runVars>>

\* WriteSequenceResultToCSV(m_Map, IterNo)
WriteSequenceResultToCSV(m_Map, IterNo) ==
    /\ iterNo < MaxIter
    /\ iterNo' = IterNo
    /\ IF m_csvResult # ""
       THEN rawFile' = AppendRaw(rawFile,
                <<"IterationNumber ", ",">> \o KeyColumns(m_Map),
                <<ToString(IterNo), ",">> \o KeyCells(m_Map))
       ELSE UNCHANGED rawFile
    /\ UNCHANGED m_csvResult
    /\ UNCHANGED <<bindVars, csvVars, thrVars, outVars, runVars>>

NextRaw ==
    \/ \E m_Res \in TensorResults : WriteTensorResultToCSV(m_Res, iterNo + 1)
    \/ \E m_Res \in StringResults : WriteStringResultToCSV(m_Res, iterNo + 1)
    \/ \E m_Map \in MapResults : WriteSequenceResultToCSV(m_Map, iterNo + 1)

SpecRaw == InitRaw /\ [][NextRaw]_vars

\* C9 (as claimed): every data row of the raw-output file has as many cells
\* as the header written on the first append has columns, also when a later
\* iteration's output has another element count or key set than the first.
C9_RowsMatchHeaderColumns ==
    \A i \in 2..Len(rawFile.lines) :
       Len(Cells(rawFile.lines[i])) = Len(Cells(rawFile.lines[1]))

----------------------------------------------------------------------------
(* Threads appending to one summary file.  Each thread has its own         *)
(* OutputHelper and runs WritePerformanceDataToCSV; the steps of a call    *)
(* are its accesses to the file: the read that sets bNewFile, and one      *)
(* append per line, each flushed by std::endl.                             *)

Threads == 1..NumThreads

ThreadRow(t) ==
    SummaryRow(Averages(NaN, <<2, 1>>, <<3, 1>>, <<1, 1>>, Zero, Zero), 1,
               "model" \o ToString(t), "CPU", "CPU", "Tensor", "WinML", FALSE)

InitThr ==
    /\ thrFile \in {File(FALSE, <<>>), File(TRUE, <<>>)}
    /\ pc = [t \in Threads |-> "call"]
    /\ bNewFile = [t \in Threads |-> FALSE]
    /\ written = [t \in Threads |-> 0]
    /\ IdleBind /\ IdleCsv /\ IdleRaw /\ IdleOut /\ IdleRun

\* fin.open; bNewFile = (EOF == outbuf->sbumpc()); fin.close
CheckHeader(t) ==
    /\ pc[t] = "call"
    /\ written[t] < MaxWrites
    /\ bNewFile' = [bNewFile EXCEPT ![t] = IsNewFile(thrFile)]
    /\ pc' = [pc EXCEPT ![t] = IF IsNewFile(thrFile) THEN "header" ELSE "row"]
    /\ UNCHANGED <<thrFile, written>>
    /\ UNCHANGED <<bindVars, csvVars, rawVars, outVars, runVars>>

\* if (bNewFile) fout << "Model Name" << ... << std::endl
AppendHeader(t) ==
    /\ pc[t] = "header"
    /\ bNewFile[t]
    /\ thrFile' = File(TRUE, thrFile.lines \o <<Header>>)
    /\ pc' = [pc EXCEPT ![t] = "row"]
    /\ UNCHANGED <<bNewFile, written>>
    /\ UNCHANGED <<bindVars, csvVars, rawVars, outVars, runVars>>

\* fout << modelName << ... << std::endl; fout.close()
AppendRow(t) ==
    /\ pc[t] = "row"
    /\ thrFile' = File(TRUE, thrFile.lines \o <<ThreadRow(t)>>)
    /\ written' = [written EXCEPT ![t] = @ + 1]
    /\ pc' = [pc EXCEPT ![t] = IF written[t] + 1 < MaxWrites THEN "call" ELSE "done"]
    /\ UNCHANGED bNewFile
    /\ UNCHANGED <<bindVars, csvVars, rawVars, outVars, runVars>>

NextThr ==
    \E t \in Threads : CheckHeader(t) \/ AppendHeader(t) \/ AppendRow(t)

SpecThreads == InitThr /\ [][NextThr]_vars

HeaderLines(f) == {i \in 1..Len(f.lines) : f.lines[i] = Header}

\* C8 (as claimed): when threads append to the same report file, the check
\* for an empty file and the append of one writer are not interleaved with
\* those of another, so once every writer has finished the file holds
\* exactly one header line.
C8_OneHeaderAfterConcurrentAppends ==
    (\A t \in Threads : pc[t] = "done") => Cardinality(HeaderLines(thrFile)) = 1

----------------------------------------------------------------------------
(* The profiler.  Profiler<WINML_MODEL_TEST_PERF> is declared outside the  *)
(* sources modelled here; it is modelled from the calls made on it: a slot *)
(* is started and stopped, a stop records one sample of every counter, the *)
(* average of a counter is taken over the recorded samples.                *)

Slots == {"LOAD_MODEL", "BIND_VALUE", "EVAL_MODEL"}

NewProfiler == [s \in Slots |-> [running |-> FALSE, samples |-> <<>>]]

Sample(timer, workingSet, gpuShared, gpuDedicated) ==
    [TIMER |-> timer, WORKING_SET_USAGE |-> workingSet,
     GPU_SHARED_MEM_USAGE |-> gpuShared, GPU_DEDICATED_MEM_USAGE |-> gpuDedicated]

\* WINML_PROFILING_START(profiler, slot)
START(p, slot) == [p EXCEPT ![slot].running = TRUE]

\* WINML_PROFILING_STOP(profiler, slot)
STOP(p, slot, sample) ==
    [p EXCEPT ![slot].running = FALSE, ![slot].samples = Append(@, sample)]

CounterValues(samples, counter) ==
    [k \in 1..Len(samples) |-> samples[k][counter]]

\* profiler[slot].GetAverage(counter)
GetAverage(p, slot, counter) ==
    IF p[slot].samples = <<>> THEN NaN
    ELSE DivD(Accumulate(CounterValues(p[slot].samples, counter)),
              Len(p[slot].samples))

\* the six averages PrintResults and WritePerformanceDataToCSV read
GetAverages(p) ==
    Averages(GetAverage(p, "LOAD_MODEL", "TIMER"),
             GetAverage(p, "BIND_VALUE", "TIMER"),
             GetAverage(p, "EVAL_MODEL", "TIMER"),
             GetAverage(p, "EVAL_MODEL", "WORKING_SET_USAGE"),
             GetAverage(p, "EVAL_MODEL", "GPU_SHARED_MEM_USAGE"),
             GetAverage(p, "EVAL_MODEL", "GPU_DEDICATED_MEM_USAGE"))

----------------------------------------------------------------------------
(* OutputHelper: its operations called in any order                        *)

\* the lines PrintResults writes to std::cout
ResultLines(avg, numIterations, deviceType, inputBindingType, inputDataType, deviceCreationLocation) ==
    LET clockBindTime == DivD(Accumulate(m_clockBindTimes), numIterations)
        clockEvalTime == DivD(Accumulate(m_clockEvalTimes), numIterations)
        totalTime     == AddD(AddD(IF isnan(avg.loadTime) THEN Zero
                                   ELSE avg.loadTime, avg.bindTime),
                              avg.evalTime)
    IN  <<"Results (device = " \o deviceType
             \o ", numIterations = " \o ToString(numIterations)
             \o ", inputBinding = " \o inputBindingType
             \o ", inputDataType = " \o inputDataType
             \o ", deviceCreationLocation = " \o deviceCreationLocation \o "):",
          "  Load: " \o (IF isnan(avg.loadTime) THEN "N/A"
                         ELSE to_string(avg.loadTime) \o " ms"),
          "  Bind: " \o FmtD(avg.bindTime) \o " ms",
          "  Evaluate: " \o FmtD(avg.evalTime) \o " ms",
          "  Total Time: " \o FmtD(totalTime) \o " ms",
          "  Wall-Clock Load: " \o FmtD(m_clockLoadTime) \o " ms",
          "  Wall-Clock Bind: " \o FmtD(clockBindTime) \o " ms",
          "  Wall-Clock Evaluate: " \o FmtD(clockEvalTime) \o " ms",
          "  Total Wall-Clock Time: "
             \o FmtD(AddD(AddD(m_clockLoadTime, clockBindTime), clockEvalTime))
             \o " ms",
          "  Working Set Memory usage (evaluate): "
             \o FmtD(avg.gpuEvalDedicatedMemoryUsage) \o " MB",
          "  Dedicated Memory Usage (evaluate): "
             \o FmtD(avg.gpuEvalDedicatedMemoryUsage) \o " MB",
          "  Shared Memory Usage (evaluate): "
             \o FmtD(avg.gpuEvalSharedMemoryUsage) \o " MB">>

IterHeader ==
    <<"Model Name", "Image Name", "Iterations", "Iteration Number ", "Result",
      "Hash", "CPU Working Set Diff", "CPU Working Set Start (MB)",
      "GPU Shared Memory Diff (MB)", "GPU Shared Memory Start (MB)",
      "GPU Dedicated Memory Diff (MB)", "Load (ms)", "Bind (ms)",
      "Evaluate (ms)", "">>

\* what a read of v[k - 1] past the end of the vector can yield
Garbage == {"0", "?"}

\* fout << v[k - 1]: the element, or whatever lies past the end
ReadAt(v, k, g) == IF k <= Len(v) THEN v[k] ELSE g

\* v.resize(n, 0.0)
Resize(v, n) == [k \in 1..n |-> IF k <= Len(v) THEN v[k] ELSE Zero]

\* the line of iteration k (i = k - 1) of WritePerformanceDataToCSVPerIteration
IterRow(k, numIterations, modelName, imgName, g) ==
    <<modelName, imgName, ToString(numIterations), ToString(k),
      ReadAt(m_Result, k, g), ReadAt(m_Hash, k, g),
      ReadAt(m_CPUWorkingDiff, k, g), ReadAt(m_CPUWorkingDiff, k, g),
      ReadAt(m_CPUWorkingDiff, k, g), ReadAt(m_CPUWorkingDiff, k, g),
      ReadAt(m_CPUWorkingDiff, k, g),
      FmtD(Resize(m_clockLoadTimes, numIterations)[k]),
      ReadAt([j \in 1..Len(m_clockBindTimes) |-> FmtD(m_clockBindTimes[j])], k, g),
      ReadAt([j \in 1..Len(m_clockEvalTimes) |-> FmtD(m_clockEvalTimes[j])], k, g)>>

IterRows(numIterations, modelName, imgName, g) ==
    [k \in 1..numIterations |-> IterRow(k, numIterations, modelName, imgName, g)]

\* every vector the line of iteration k indexes has an element k
InBounds(k) ==
    /\ k <= Len(m_Result) /\ k <= Len(m_Hash) /\ k <= Len(m_CPUWorkingDiff)
    /\ k <= Len(m_clockBindTimes) /\ k <= Len(m_clockEvalTimes)

\* the lines the loop can append: all of them when every index is in range;
\* otherwise the reads past the end yield anything, or the process dies at
\* the first of them
IterLines(numIterations, modelName, imgName) ==
    LET oob == {k \in 1..numIterations : ~InBounds(k)}
    IN  IF oob = {} THEN {IterRows(numIterations, modelName, imgName, "0")}
        ELSE {IterRows(numIterations, modelName, imgName, g) : g \in Garbage}
             \cup {SubSeq(IterRows(numIterations, modelName, imgName, "0"), 1,
                          (CHOOSE k \in oob : \A j \in oob : k <= j) - 1)}

InitOut ==
    /\ files = [p \in Paths |-> File(FALSE, <<>>)]
    /\ m_csvFileName = ""
    /\ m_clockLoadTime = Zero
    /\ m_clockBindTimes = <<>>
    /\ m_clockEvalTimes = <<>>
    /\ calls = [p \in Paths |-> 0]
    /\ restarts = 0
    /\ runCalls = 0
    /\ m_csvResult = ""
    /\ rawFile = File(FALSE, <<>>)
    /\ iterNo = 0
    /\ m_csvFileNamePerIteration = ""
    /\ iterFile = File(FALSE, <<>>)
    /\ m_clockLoadTimes = <<>>
    /\ m_Result = <<>>
    /\ m_Hash = <<>>
    \* OutputHelper(num, silent)
    /\ \E num \in {MaxSamples - 1, MaxSamples} :
          m_CPUWorkingDiff = [k \in 1..num |-> "0"]
    /\ m_silent \in BOOLEAN
    /\ results = <<>>
    /\ fault = "none"
    /\ profiler = NewProfiler
    /\ console = <<>>
    /\ IdleBind /\ IdleThr /\ IdleRun

\* report writes made so far
OutCalls == SumOver(calls, Paths) + iterNo + Len(iterFile.lines)

\* SetDefaultCSVFileNamePerIteration()
SetDefaultCSVFileNamePerIteration ==
    /\ m_csvFileNamePerIteration' = "PerIterationValues.csv"
    /\ UNCHANGED <<iterFile, m_clockLoadTimes, m_Result, m_Hash,
                   m_CPUWorkingDiff, profiler, console, m_silent, results, fault>>
    /\ UNCHANGED <<bindVars, csvVars, rawVars, thrVars, runVars>>

\* SetDefaultCSVResult()
SetDefaultCSVResult ==
    /\ m_csvResult' = "Result.csv"
    /\ UNCHANGED <<rawFile, iterNo>>
    /\ UNCHANGED <<bindVars, csvVars, thrVars, outVars, runVars>>

\* SaveResult(IterRes, TensorHash)
SaveResult(IterRes, TensorHash) ==
    /\ m_Result' = IterRes
    /\ m_Hash' = TensorHash
    /\ UNCHANGED <<m_csvFileNamePerIteration, iterFile, m_clockLoadTimes,
                   m_CPUWorkingDiff, profiler, console, m_silent, results, fault>>
    /\ UNCHANGED <<bindVars, csvVars, rawVars, thrVars, runVars>>

\* the caller measures the load: profiler bracket and wall clock
MeasureLoad(sample, clock) ==
    /\ profiler["LOAD_MODEL"].samples = <<>>
    /\ profiler' = STOP(START(profiler, "LOAD_MODEL"), "LOAD_MODEL", sample)
    /\ m_clockLoadTime' = clock
    /\ UNCHANGED <<files, m_csvFileName, m_clockBindTimes, m_clockEvalTimes,
                   calls, restarts, runCalls>>
    /\ UNCHANGED <<m_csvFileNamePerIteration, iterFile, m_clockLoadTimes,
                   m_Result, m_Hash, m_CPUWorkingDiff, console, m_silent, results, fault>>
    /\ UNCHANGED <<bindVars, rawVars, thrVars, runVars>>

\* the caller measures one iteration: profiler brackets around bind and
\* evaluate, and m_clockBindTimes / m_clockEvalTimes .push_back(timer.Stop())
MeasureIteration(bind, eval) ==
    /\ Len(m_clockEvalTimes) < MaxSamples
    /\ profiler' = STOP(START(STOP(START(profiler, "BIND_VALUE"), "BIND_VALUE",
                                   Sample(bind, Zero, Zero, Zero)),
                              "EVAL_MODEL"), "EVAL_MODEL",
                        Sample(eval, <<1, 1>>, Zero, Zero))
    /\ m_clockBindTimes' = Append(m_clockBindTimes, bind)
    /\ m_clockEvalTimes' = Append(m_clockEvalTimes, eval)
    /\ UNCHANGED <<files, m_csvFileName, m_clockLoadTime, calls, restarts,
                   runCalls>>
    /\ UNCHANGED <<m_csvFileNamePerIteration, iterFile, m_clockLoadTimes,
                   m_Result, m_Hash, m_CPUWorkingDiff, console, m_silent, results, fault>>
    /\ UNCHANGED <<bindVars, rawVars, thrVars, runVars>>

\* wall-clock time of the iteration measured next: the first one is slow
NextDuration == IF m_clockEvalTimes = <<>> THEN <<6, 1>> ELSE <<2, 1>>

\* PrintResults(profiler, numIterations, deviceType, ...)
PrintResults(p, numIterations, deviceType, inputBindingType, inputDataType, deviceCreationLocation) ==
    /\ console = <<>>
    /\ console' = IF m_silent THEN console
                  ELSE Append(console,
                              ResultLines(GetAverages(p), numIterations,
                                          deviceType, inputBindingType,
                                          inputDataType, deviceCreationLocation))
    /\ UNCHANGED <<m_csvFileNamePerIteration, iterFile, m_clockLoadTimes,
                   m_Result, m_Hash, m_CPUWorkingDiff, profiler, m_silent, results, fault>>
    /\ UNCHANGED <<bindVars, csvVars, rawVars, thrVars, runVars>>

\* WritePerformanceDataToCSVPerIteration(profiler, args, model, img)
WritePerformanceDataToCSVPerIteration(numIterations, model, img) ==
    /\ IF m_csvFileNamePerIteration # ""
       THEN /\ \E lines \in IterLines(numIterations, model, img) :
                  /\ iterFile' = File(TRUE, iterFile.lines
                                    \o (IF IsNewFile(iterFile) THEN <<IterHeader>>
                                        ELSE <<>>)
                                    \o lines)
                  /\ fault' = IF \A k \in 1..numIterations : InBounds(k) THEN fault
                              ELSE IF Len(lines) < numIterations THEN "crashed"
                              ELSE "undefined"
            /\ m_clockLoadTimes' = Resize(m_clockLoadTimes, numIterations)
       ELSE UNCHANGED <<iterFile, m_clockLoadTimes, fault>>
    /\ UNCHANGED <<m_csvFileNamePerIteration, m_Result, m_Hash,
                   m_CPUWorkingDiff, profiler, console, m_silent, results>>
    /\ UNCHANGED <<bindVars, csvVars, rawVars, thrVars, runVars>>

\* the caller sets the paths first, then measures, then reports
Fresh    == profiler = NewProfiler /\ m_clockEvalTimes = <<>>
Unreported == OutCalls = 0 /\ console = <<>>

\* the process has not died of an access outside a vector
Running == fault # "crashed"

NextOut ==
    \/ Running /\ Fresh /\ Unreported /\ SetCSVFileName("a.csv")
    \/ Running /\ Fresh /\ Unreported /\ SetDefaultCSVFileNamePerIteration
    \/ Running /\ Fresh /\ Unreported /\ SetDefaultCSVResult
    \/ /\ Running
       /\ Fresh /\ Unreported
       /\ MeasureLoad(Sample(<<5, 1>>, Zero, Zero, Zero), <<5, 1>>)
    \/ Running /\ Unreported /\ MeasureIteration(<<1, 1>>, NextDuration)
    \/ /\ Running
       /\ Unreported /\ m_Result = <<>> /\ m_clockEvalTimes # <<>>
       /\ SaveResult([k \in 1..Len(m_clockEvalTimes) |-> "ok"],
                     [k \in 1..Len(m_clockEvalTimes) |-> "0"])
    \/ Running /\ PrintResults(profiler, MaxSamples, "CPU", "CPU", "Tensor", "WinML")
    \/ /\ Running
       /\ OutCalls < MaxOutCalls
       /\ \E n \in 1..MaxSamples, firstRunIgnored \in BOOLEAN :
             WritePerformanceDataToCSV(GetAverages(profiler), n, "model.onnx",
                                       "CPU", "CPU", "Tensor", "WinML",
                                       firstRunIgnored)
    \/ /\ Running
       /\ OutCalls < MaxOutCalls
       /\ \E n \in 1..MaxSamples :
             WritePerformanceDataToCSVPerIteration(n, "model.onnx", "")
    \/ /\ Running
       /\ OutCalls < MaxOutCalls
       /\ WriteTensorResultToCSV(<<7>>, iterNo + 1)
    \/ /\ Running
       /\ OutCalls < MaxOutCalls
       /\ WriteSequenceResultToCSV(<<<<1, 7>>>>, iterNo + 1)

SpecOut == InitOut /\ [][NextOut]_vars

----------------------------------------------------------------------------
(* Properties of the OutputHelper operations                               *)

CounterKinds ==
    {"TIMER", "WORKING_SET_USAGE", "GPU_SHARED_MEM_USAGE",
     "GPU_DEDICATED_MEM_USAGE"}

LastLine(f) == f.lines[Len(f.lines)]

\* C11: a write operation whose output path is unset is a no-op: while
\* m_csvFileName, m_csvResult or m_csvFileNamePerIteration is empty, no step
\* creates or changes the corresponding file, and the per-iteration writer
\* leaves m_clockLoadTimes alone.
C11_UnsetPathWriteIsNoOp ==
    [][/\ m_csvFileName = "" => files' = files
       /\ m_csvResult = "" => rawFile' = rawFile
       /\ m_csvFileNamePerIteration = ""
             => iterFile' = iterFile /\ m_clockLoadTimes' = m_clockLoadTimes]_vars

\* the raw-output writers were called twice with no path set: nothing exists
C11_Witness ==
    /\ m_csvResult = "" /\ m_csvFileName = "" /\ m_csvFileNamePerIteration = ""
    /\ iterNo = 2
    /\ m_clockEvalTimes # <<>>
    /\ rawFile = File(FALSE, <<>>)
    /\ iterFile = File(FALSE, <<>>)
    /\ \A p \in Paths : files[p] = File(FALSE, <<>>)

\* C12: the average of a slot and counter without a sample is the
\* not-available value and not 0, and both PrintResults and the summary row
\* render the load average as "N/A" exactly when LOAD_MODEL has no sample.
C12_NoSampleIsNotAvailable ==
    [][LET noLoad == profiler["LOAD_MODEL"].samples = <<>>
       IN  /\ \A s \in Slots, c \in CounterKinds :
                 profiler[s].samples = <<>>
                    => /\ isnan(GetAverage(profiler, s, c))
                       /\ GetAverage(profiler, s, c) # Zero
           /\ console' # console
                 => (console'[Len(console')][2] = "  Load: N/A" <=> noLoad)
           /\ \A p \in Paths :
                 files'[p] # files[p]
                    => /\ LastLine(files'[p])[8] = "N/A" <=> noLoad
                       /\ noLoad => LastLine(files'[p])[8]
                                       \notin {"0", "0.000000", "nan"}]_vars

\* bind and evaluate were measured, the load was not; console and summary
\* row both show N/A
C12_Witness ==
    /\ profiler["LOAD_MODEL"].samples = <<>>
    /\ profiler["EVAL_MODEL"].samples # <<>>
    /\ console # <<>> /\ console[1][2] = "  Load: N/A"
    /\ files["a.csv"].lines # <<>>
    /\ LastLine(files["a.csv"])[8] = "N/A"

\* C19 (as claimed): with the first run ignored and N >= 2 iterations
\* measured, the per-iteration file gets N rows and the summary row's
\* wall-clock and profiler averages of bind and evaluate are those of the
\* N - 1 samples after the first.
C19_FirstRunLeftOutOfAverages ==
    [][LET N == Len(m_clockEvalTimes)
           WithoutFirst(v) == DivD(Accumulate(Tail(v)), N - 1)
           timer(slot) == CounterValues(profiler[slot].samples, "TIMER")
       IN  /\ (iterFile' # iterFile /\ \A k \in 1..MaxSamples : InBounds(k))
                 => LET new == Len(iterFile'.lines) - Len(iterFile.lines)
                               - (IF iterFile.lines = <<>> THEN 1 ELSE 0)
                    IN  LastLine(iterFile')[3] = ToString(new)
           /\ \A p \in Paths :
                 (/\ files'[p] # files[p]
                  /\ N >= 2
                  /\ Len(profiler["EVAL_MODEL"].samples) = N
                  /\ LastLine(files'[p])[6] = ToString(N)
                  /\ LastLine(files'[p])[7] = "1")
                 => /\ LastLine(files'[p])[16] = FmtD(WithoutFirst(m_clockBindTimes))
                    /\ LastLine(files'[p])[17] = FmtD(WithoutFirst(m_clockEvalTimes))
                    /\ LastLine(files'[p])[9] = FmtD(WithoutFirst(timer("BIND_VALUE")))
                    /\ LastLine(files'[p])[10] = FmtD(WithoutFirst(timer("EVAL_MODEL")))]_vars

----------------------------------------------------------------------------
(* main (Main.cpp): LoadModelHelper, EvaluateModel on the CPU and on the   *)
(* GPU, WritePerformanceDataToCSV, for one model or for every model file   *)
(* of a folder.  A position of main is the call it makes next.             *)

\* CommandLineArgs::UseCPU()
UseCPU(a) ==
    a.m_useCPU \/ (~a.m_useGPU /\ ~a.m_useGPUHighPerformance /\ ~a.m_useGPUMinPower)

\* CommandLineArgs::UseGPU()
UseGPU(a) ==
    a.m_useGPU \/ (~a.m_useCPU /\ ~a.m_useGPUHighPerformance /\ ~a.m_useGPUMinPower)

\* CommandLineArgs::UseCPUandGPU(): called by main, declared in no header of
\* the sources; taken as "both devices were asked for"
UseCPUandGPU(a) == a.m_useCPU /\ a.m_useGPU

\* it.path().string().find(".onnx") != npos || ... find(".pb") != npos
IsModelFile(path) == path \in {"a.onnx", "b.pb"}

Entries == <<"a.onnx", "b.pb", "c.txt">>

RECURSIVE Listing(_, _)
\* the entries of S in the order of the directory
Listing(S, k) ==
    IF k > Len(Entries) THEN <<>>
    ELSE (IF Entries[k] \in S THEN <<Entries[k]>> ELSE <<>>) \o Listing(S, k + 1)

Directories ==
    {Listing(S, 1) : S \in {T \in SUBSET {Entries[k] : k \in 1..Len(Entries)} :
                               Cardinality(T) <= MaxFiles}}

DeviceFlags ==
    {[m_useCPU |-> c, m_useGPU |-> g, m_useGPUHighPerformance |-> h] :
        c \in BOOLEAN, g \in BOOLEAN, h \in BOOLEAN} \
    {[m_useCPU |-> c, m_useGPU |-> g, m_useGPUHighPerformance |-> TRUE] :
        c \in BOOLEAN, g \in {TRUE}}

Args(perf, n, model, folder, entries, flags, image, csv, limited, limit) ==
    [m_perfCapture |-> perf, m_numIterations |-> n, m_modelPath |-> model,
     m_modelFolderPath |-> folder, entries |-> entries,
     m_useCPU |-> flags.m_useCPU, m_useGPU |-> flags.m_useGPU,
     m_useGPUHighPerformance |-> flags.m_useGPUHighPerformance,
     m_useGPUMinPower |-> FALSE,
     m_imagePath |-> image, m_csvData |-> csv,
     m_timeLimitIterations |-> limited,
     m_iterationTimeLimitMilliseconds |-> limit]

\* where the model comes from: a model path, a folder with its listing, or
\* neither
Targets ==
    {<<"model.onnx", "", <<>>>>, <<"", "", <<>>>>}
    \cup {<<"", "models", d>> : d \in Directories}

Inputs == {<<"image.png", "">>, <<"", "data.csv">>, <<"", "">>}

\* SetIterationTimeLimit(milliseconds) called or not
TimeLimits == {<<FALSE, 0>>, <<TRUE, 1>>}

ArgsSet ==
    {Args(perf, n, t[1], t[2], t[3], flags, in[1], in[2], tl[1], tl[2]) :
        perf \in BOOLEAN, n \in 1..MaxIterations, t \in Targets,
        flags \in DeviceFlags, in \in Inputs, tl \in TimeLimits}

\* what happened to one model (device "none": its load) or to one
\* EvaluateModel call on it
Entry(model, dev) ==
    [model |-> model, device |-> dev, load |-> "ok", session |-> "none",
     input |-> "none", bind |-> "none", evals |-> 0, failed |-> 0, lost |-> FALSE,
     times |-> <<>>, done |-> FALSE, reported |-> FALSE]

\* the bind call EvaluateModel makes: BindImageToContext, BindCSVDataToContext
\* or BindGarbageDataToContext
BindSource(a) ==
    IF a.m_imagePath # "" THEN "image"
    ELSE IF a.m_csvData # "" THEN "csv"
    ELSE "garbage"

Last(q) == q[Len(q)]
SetLast(q, e) == [q EXCEPT ![Len(q)] = e]

\* wall-clock milliseconds of one Evaluate call
EvalDuration == 2

\* the device main evaluates next, after the load ("none") or after device dev
NextDevice(a, dev) ==
    IF dev = "none" /\ (UseCPUandGPU(a) \/ UseCPU(a)) THEN "CPU"
    ELSE IF dev # "GPU" /\ (UseCPUandGPU(a) \/ UseGPU(a)) THEN "GPU"
    ELSE "none"

\* where main goes when the load or an EvaluateModel call has succeeded
Onward(a, dev) == IF NextDevice(a, dev) = "none" THEN "report" ELSE "bind"

\* where EvaluateModel goes after the session creation and the bind:
\* catch (hresult_error hr) { ...; return hr.code(); }
AfterBindIgnoringFailure(outcome, a) ==
    IF a.m_perfCapture /\ a.m_numIterations = 0 THEN "print" ELSE "evaluate"

AfterBind(outcome, a) ==
    IF outcome # "ok" THEN "exit"
    ELSE IF a.m_perfCapture /\ a.m_numIterations = 0 THEN "print"
    ELSE "evaluate"

\* where EvaluateModel goes after an Evaluate call: a failure carried on from
AfterEvaluateCarryingOn(outcome, a, k) ==
    IF a.m_perfCapture /\ k + 1 < a.m_numIterations THEN "evaluate" ELSE "print"

\* where EvaluateModel goes after the Evaluate call of iteration k (from 0)
AfterEvaluate(outcome, a, k) ==
    IF outcome # "ok" THEN "exit"
    ELSE IF a.m_perfCapture /\ k + 1 < a.m_numIterations THEN "evaluate"
    ELSE "print"

\* a start on a slot that is running, a stop on a slot that is not
StartFault(p, slot) == p[slot].running
StopFault(p, slot) == ~p[slot].running

outRest == <<m_csvFileNamePerIteration, iterFile, m_clockLoadTimes, m_Result,
             m_Hash, m_CPUWorkingDiff, console, m_silent, results, fault>>
csvRest == <<calls, restarts, runCalls>>

InitRun ==
    /\ args \in ArgsSet
    /\ at = "main"
    /\ dir = <<>>
    /\ device = "none"
    /\ iteration = 0
    /\ log = <<>>
    /\ imbalanced = FALSE
    /\ hr = "none"
    /\ profiler = NewProfiler
    /\ files = [p \in Paths |-> File(FALSE, <<>>)]
    /\ m_csvFileName = ""
    /\ m_clockLoadTime = Zero
    /\ m_clockBindTimes = <<>>
    /\ m_clockEvalTimes = <<>>
    /\ calls = [p \in Paths |-> 0]
    /\ restarts = 0
    /\ runCalls = 0
    /\ m_csvFileNamePerIteration = ""
    /\ iterFile = <<>>
    /\ m_clockLoadTimes = <<>>
    /\ m_Result = <<>>
    /\ m_Hash = <<>>
    /\ m_CPUWorkingDiff = <<>>
    /\ console = <<>>
    /\ m_silent = FALSE
    /\ results = <<>>
    /\ fault = "none"
    /\ IdleBind /\ IdleRaw /\ IdleThr

\* main up to its first call: g_Profiler.Enable(), SetDefaultCSVFileName(),
\* then the model path, else the folder, else return 0
Main ==
    /\ at = "main"
    /\ m_csvFileName' = "a.csv"
    /\ IF args.m_modelPath # ""
       THEN at' = "load" /\ dir' = <<args.m_modelPath>> /\ hr' = hr
       ELSE IF args.m_modelFolderPath # ""
            THEN at' = "folder" /\ dir' = args.entries /\ hr' = hr
            ELSE at' = "exit" /\ dir' = dir /\ hr' = "S_OK"
    /\ UNCHANGED <<args, device, iteration, log, imbalanced>>
    /\ UNCHANGED <<files, m_clockLoadTime, m_clockBindTimes, m_clockEvalTimes,
                   csvRest, profiler, outRest>>
    /\ UNCHANGED <<bindVars, rawVars, thrVars>>

\* EvaluateModelsInDirectory: the head of the loop over the directory
EvaluateModelsInDirectory ==
    /\ at = "folder"
    /\ IF dir = <<>>
       THEN at' = "exit" /\ hr' = "S_OK" /\ dir' = dir
       ELSE IF IsModelFile(Head(dir))
            THEN at' = "load" /\ hr' = hr /\ dir' = dir
            ELSE at' = "folder" /\ hr' = hr /\ dir' = Tail(dir)
    /\ UNCHANGED <<args, device, iteration, log, imbalanced>>
    /\ UNCHANGED <<csvVars, profiler, outRest>>
    /\ UNCHANGED <<bindVars, rawVars, thrVars>>

\* LoadModelHelper, and the return of its caller when it throws
LoadModelHelper(loaded) ==
    /\ at = "load"
    /\ LET perf    == args.m_perfCapture
           started == IF perf THEN START(profiler, "LOAD_MODEL") ELSE profiler
       IN  /\ imbalanced' = (\/ imbalanced
                           \/ (perf /\ StartFault(profiler, "LOAD_MODEL"))
                           \/ (perf /\ loaded /\ StopFault(started, "LOAD_MODEL")))
           /\ IF loaded
              THEN /\ profiler' = IF perf
                                  THEN STOP(started, "LOAD_MODEL",
                                            Sample(<<5, 1>>, Zero, Zero, Zero))
                                  ELSE started
                   /\ m_clockLoadTime' = IF perf THEN <<5, 1>> ELSE m_clockLoadTime
                   /\ log' = Append(log, Entry(Head(dir), "none"))
                   /\ at' = Onward(args, "none")
                   /\ device' = NextDevice(args, "none")
                   /\ hr' = hr
              ELSE /\ profiler' = started
                   /\ m_clockLoadTime' = m_clockLoadTime
                   /\ log' = Append(log, [Entry(Head(dir), "none")
                                            EXCEPT !.load = "failed"])
                   /\ at' = "exit"
                   /\ device' = device
                   /\ hr' = "failed"
    /\ UNCHANGED <<args, dir, iteration>>
    /\ UNCHANGED <<files, m_csvFileName, m_clockBindTimes, m_clockEvalTimes,
                   csvRest, outRest>>
    /\ UNCHANGED <<bindVars, rawVars, thrVars>>

\* EvaluateModel from its entry to "Binding Model ... [SUCCESS]": the session
\* is created, then the input is bound inside the BIND_VALUE bracket
BindModel(outcome) ==
    /\ at = "bind"
    /\ LET perf    == args.m_perfCapture /\ outcome # "session_failed"
           started == IF perf THEN START(profiler, "BIND_VALUE") ELSE profiler
           config  == [Entry(Head(dir), device) EXCEPT
                          !.session = IF outcome = "session_failed"
                                      THEN "failed" ELSE "ok",
                          !.input = IF outcome = "session_failed" THEN "none"
                                    ELSE BindSource(args),
                          !.bind = IF outcome = "session_failed" THEN "none"
                                   ELSE IF outcome = "bind_failed" THEN "failed"
                                   ELSE "ok"]
       IN  /\ imbalanced' = (\/ imbalanced
                           \/ (perf /\ StartFault(profiler, "BIND_VALUE"))
                           \/ (perf /\ outcome = "ok" /\ StopFault(started, "BIND_VALUE")))
           /\ profiler' = IF perf /\ outcome = "ok"
                          THEN STOP(started, "BIND_VALUE",
                                    Sample(<<1, 1>>, Zero, Zero, Zero))
                          ELSE started
           /\ m_clockBindTimes' = IF perf /\ outcome = "ok"
                                  THEN <<<<1, 1>>>> ELSE m_clockBindTimes
           /\ log' = Append(log, config)
           /\ at' = AfterBind(outcome, args)
           /\ hr' = IF AfterBind(outcome, args) = "exit" THEN "failed" ELSE hr
    /\ iteration' = 0
    /\ UNCHANGED <<args, dir, device>>
    /\ UNCHANGED <<files, m_csvFileName, m_clockLoadTime, m_clockEvalTimes,
                   csvRest, outRest>>
    /\ UNCHANGED <<bindVars, rawVars, thrVars>>

\* one session.Evaluate call: an iteration of the loop when the performance
\* is captured, the single call otherwise
Evaluate(outcome) ==
    /\ at = "evaluate"
    /\ LET perf    == args.m_perfCapture
           started == IF perf THEN START(profiler, "EVAL_MODEL") ELSE profiler
           config  == [Last(log) EXCEPT
                          !.evals = @ + 1,
                          !.failed = @ + (IF outcome = "failed" THEN 1 ELSE 0),
                          !.lost = @ \/ outcome = "device_lost",
                          !.times = Append(@, EvalDuration)]
       IN  /\ imbalanced' = (\/ imbalanced
                           \/ (perf /\ StartFault(profiler, "EVAL_MODEL"))
                           \/ (perf /\ outcome = "ok" /\ StopFault(started, "EVAL_MODEL")))
           /\ profiler' = IF perf /\ outcome = "ok"
                          THEN STOP(started, "EVAL_MODEL",
                                    Sample(<<EvalDuration, 1>>, <<1, 1>>, Zero, Zero))
                          ELSE started
           /\ m_clockEvalTimes' = IF perf /\ outcome = "ok"
                                  THEN Append(m_clockEvalTimes, <<EvalDuration, 1>>)
                                  ELSE m_clockEvalTimes
           /\ log' = SetLast(log, config)
           /\ at' = AfterEvaluate(outcome, args, iteration)
           /\ hr' = IF AfterEvaluate(outcome, args, iteration) = "exit"
                    THEN "failed" ELSE hr
    /\ iteration' = iteration + 1
    /\ UNCHANGED <<args, dir, device>>
    /\ UNCHANGED <<files, m_csvFileName, m_clockLoadTime, m_clockBindTimes,
                   csvRest, outRest>>
    /\ UNCHANGED <<bindVars, rawVars, thrVars>>

\* the end of EvaluateModel: the times are printed, g_Profiler.Reset() when
\* the performance is captured, return S_OK; main goes on with the next device
PrintTimes ==
    /\ at = "print"
    /\ profiler' = IF args.m_perfCapture THEN NewProfiler ELSE profiler
    /\ log' = SetLast(log, [Last(log) EXCEPT !.done = TRUE])
    /\ at' = Onward(args, device)
    /\ device' = NextDevice(args, device)
    /\ UNCHANGED <<args, dir, iteration, imbalanced, hr>>
    /\ UNCHANGED <<csvVars, outRest>>
    /\ UNCHANGED <<bindVars, rawVars, thrVars>>

\* output.WritePerformanceDataToCSV(g_Profiler, args, modelPath);
\* output.Reset(); then return 0, or the next entry of the folder
Report ==
    /\ at = "report"
    /\ files' = [files EXCEPT ![m_csvFileName] =
                    AppendSummary(@, SummaryRow(GetAverages(profiler),
                                      args.m_numIterations, Head(dir),
                                      Last(log).device, "CPU", "Tensor", "WinML",
                                      FALSE))]
    /\ m_clockBindTimes' = <<>>
    /\ m_clockEvalTimes' = <<>>
    /\ log' = [k \in 1..Len(log) |->
                  IF log[k].model = Head(dir)
                  THEN [log[k] EXCEPT !.reported = TRUE] ELSE log[k]]
    /\ IF args.m_modelPath # ""
       THEN at' = "exit" /\ hr' = "S_OK" /\ dir' = dir
       ELSE at' = "folder" /\ hr' = hr /\ dir' = Tail(dir)
    /\ UNCHANGED <<args, device, iteration, imbalanced>>
    /\ UNCHANGED <<m_csvFileName, m_clockLoadTime, csvRest, profiler, outRest>>
    /\ UNCHANGED <<bindVars, rawVars, thrVars>>

EvalOutcomes == {"ok", "failed", "device_lost"}

NextRun ==
    \/ Main
    \/ EvaluateModelsInDirectory
    \/ \E loaded \in BOOLEAN : LoadModelHelper(loaded)
    \/ \E outcome \in {"ok", "session_failed", "bind_failed"} : BindModel(outcome)
    \/ \E outcome \in EvalOutcomes : Evaluate(outcome)
    \/ PrintTimes
    \/ Report

SpecRun == InitRun /\ [][NextRun]_vars

----------------------------------------------------------------------------
(* Properties of main                                                      *)

Configs == {k \in 1..Len(log) : log[k].device # "none"}

\* C13: in every run of main, over one model or a folder and on every
\* failure path, no profiler slot is started while it is running and none is
\* stopped while it is not: starts and stops alternate, beginning with a start
C13_ProfilerBracketsAlternate == ~imbalanced

\* a run that captured the performance, evaluated once with success and ended
\* on a failed Evaluate call, which left the EVAL_MODEL slot started
C13_Witness ==
    /\ at = "exit" /\ hr = "failed" /\ args.m_perfCapture
    /\ profiler["EVAL_MODEL"].running
    /\ Len(profiler["EVAL_MODEL"].samples) >= 1
    /\ Len(profiler["LOAD_MODEL"].samples) = 1

\* C14: a configuration that was loaded and bound and in which no Evaluate
\* call failed has called Evaluate exactly NumIterations times when
\* EvaluateModel returns, with and without performance capture
C14_EvaluatesExactlyN ==
    \A k \in Configs : log[k].done => log[k].evals = args.m_numIterations

\* C15: when the run has ended, a configuration in which an Evaluate call
\* failed for a reason other than a lost device has attempted all
\* NumIterations calls
C15_FailedIterationDoesNotAbort ==
    at = "exit" =>
        \A k \in Configs :
            (log[k].failed > 0 /\ ~log[k].lost) => log[k].evals = args.m_numIterations

ModelFiles == {f \in {args.entries[k] : k \in 1..Len(args.entries)} : IsModelFile(f)}

\* the load of model f or one of its EvaluateModel calls failed
Failed(f) ==
    \E k \in 1..Len(log) :
        /\ log[k].model = f
        /\ \/ log[k].load = "failed"
           \/ log[k].session = "failed"
           \/ log[k].bind = "failed"
           \/ log[k].failed > 0
           \/ log[k].lost

\* model f was loaded, evaluated on every device asked for, and has its
\* summary row
Completed(f) ==
    /\ \E k \in 1..Len(log) : log[k].model = f /\ log[k].device = "none" /\ log[k].reported
    /\ \A k \in Configs : log[k].model = f => log[k].done /\ log[k].reported
    /\ \E k \in 1..Len(files["a.csv"].lines) : files["a.csv"].lines[k][1] = f

\* C16: when the run over a folder has ended, every model file of the folder
\* other than a failing one was loaded and evaluated and has its summary row
C16_FailureAbortsOnlyThatModel ==
    (at = "exit" /\ args.m_modelFolderPath # "") =>
        \A f \in ModelFiles : Failed(f) \/ Completed(f)

\* C17: a configuration whose bind failed has made no Evaluate call, in every
\* state of every run
C17_NoEvaluateAfterBindFailure ==
    \A k \in Configs : log[k].bind = "failed" => log[k].evals = 0

\* the bind of the second device failed, after the first device was
\* evaluated, and the run ended with the error
C17_Witness ==
    /\ at = "exit" /\ hr = "failed"
    /\ Len(log) = 3
    /\ log[2].done /\ log[2].evals = args.m_numIterations
    /\ log[3].bind = "failed" /\ log[3].device = "GPU"
    /\ log[3].input \in {"image", "csv", "garbage"}

\* C18: when the run has ended, every configuration in which an Evaluate
\* call completed, with success or not, has had its summary row written
C18_ReportedWhenAnyIterationCompleted ==
    at = "exit" =>
        \A k \in Configs : log[k].evals > 0 => log[k].reported

RECURSIVE Elapsed(_, _)
\* the time of the Evaluate calls 2..k of a configuration
Elapsed(times, k) == IF k <= 1 THEN 0 ELSE times[k] + Elapsed(times, k - 1)

\* C20: with an iteration time limit set, no Evaluate call is made once the
\* time of the calls after the first exceeds the limit, and the summary row
\* of a model holds the number of calls made, not NumIterations
C20_TimeLimitStopsTheLoop ==
    args.m_timeLimitIterations =>
        \A k \in Configs :
            /\ \A j \in 1..(log[k].evals - 1) :
                  Elapsed(log[k].times, j) <= args.m_iterationTimeLimitMilliseconds
            /\ log[k].reported =>
                  \E r \in 1..Len(files["a.csv"].lines) :
                      /\ files["a.csv"].lines[r][1] = log[k].model
                      /\ files["a.csv"].lines[r][6] = ToString(log[k].evals)

\* C21: at the start of every EvaluateModel call (the GPU call that follows
\* the CPU call of the same model and the calls for the next model of a folder
\* included) the wall-clock sample lists and the BIND_VALUE and EVAL_MODEL
\* histories of the profiler are empty; the LOAD_MODEL history, which holds the
\* load of the model being evaluated, is left out of the statement
C21_NothingLeaksAcrossConfigurations ==
    at = "bind" =>
        /\ m_clockBindTimes = <<>>
        /\ m_clockEvalTimes = <<>>
        /\ profiler["BIND_VALUE"].samples = <<>>
        /\ profiler["EVAL_MODEL"].samples = <<>>

\* the load entry of the model of configuration k
LoadOf(k) == {j \in 1..(k - 1) : log[j].device = "none" /\ log[j].model = log[k].model}

\* C22: the phases of a configuration come in the order load, bind,
\* evaluate, report: a bind only after the load of its model succeeded, an
\* Evaluate call only after the bind succeeded, the summary row only after
\* EvaluateModel returned, and when the row is written after a run that
\* captured the performance the profiler still holds the EVAL_MODEL samples of
\* the configuration evaluated last
C22_PhasesInOrder ==
    /\ \A k \in Configs :
          /\ \E j \in LoadOf(k) : log[j].load = "ok"
          /\ log[k].evals > 0 => log[k].bind = "ok"
          /\ log[k].reported => log[k].done
    /\ (at = "report" /\ args.m_perfCapture /\ Last(log).device # "none") =>
          Len(profiler["EVAL_MODEL"].samples) = Last(log).evals

\* C24: when the summary row of a run that captured the performance is
\* written after an evaluation, m_clockEvalTimes holds as many samples as the
\* numIterations the row divides their sum by, for every device selection
C24_WallClockDivisorIsSampleCount ==
    (at = "report" /\ args.m_perfCapture /\ Last(log).device # "none") =>
        Len(m_clockEvalTimes) = args.m_numIterations

----------------------------------------------------------------------------
(* CommandLineArgs (src/CommandLineArgs.h): the members as the constructor *)
(* leaves them, the setters, and the predicates computed from the members. *)

\* the members the predicates below read, default-initialised; the image paths
\* and the CSV path have no setter: the parsing constructor fills them
CommandLineArgs(imagePaths, csvData) ==
    [m_useCPU |-> FALSE, m_useGPU |-> FALSE,
     m_useGPUHighPerformance |-> FALSE, m_useGPUMinPower |-> FALSE,
     m_createDeviceOnClient |-> FALSE, m_createDeviceInWinML |-> FALSE,
     m_useRGB |-> FALSE, m_useBGR |-> FALSE, m_useTensor |-> FALSE,
     m_useCPUBoundInput |-> FALSE, m_useGPUBoundInput |-> FALSE,
     m_imagePaths |-> imagePaths, m_csvData |-> csvData,
     m_numIterations |-> 1]

UseBGR(a) == a.m_useBGR

UseRGB(a) == a.m_useRGB \/ (a.m_imagePaths # <<>> /\ ~a.m_useBGR /\ ~a.m_useTensor)

UseTensor(a) == a.m_useTensor \/ (~a.m_useBGR /\ ~UseRGB(a))

UseCPUBoundInput(a) == a.m_useCPUBoundInput \/ ~a.m_useGPUBoundInput

IsUsingGPUBoundInput(a) == a.m_useGPUBoundInput

CreateDeviceInWinML(a) == a.m_createDeviceInWinML \/ ~a.m_createDeviceOnClient

IsCreateDeviceOnClient(a) == a.m_createDeviceOnClient

IsGarbageInput(a) == a.m_imagePaths = <<>> /\ a.m_csvData = ""

IsCSVInput(a) == a.m_imagePaths = <<>> /\ a.m_csvData # ""

IsImageInput(a) == a.m_imagePaths # <<>> /\ a.m_csvData = ""

NumIterations(a) == a.m_numIterations

InitArgs ==
    /\ \E imagePaths \in {<<>>, <<"image.png">>}, csvData \in {"", "data.csv"} :
          args = CommandLineArgs(imagePaths, csvData)
    /\ at = "idle"
    /\ dir = <<>>
    /\ device = "none"
    /\ iteration = 0
    /\ log = <<>>
    /\ imbalanced = FALSE
    /\ hr = "none"
    /\ IdleBind /\ IdleCsv /\ IdleRaw /\ IdleThr /\ IdleOut

\* what a setter of CommandLineArgs leaves alone
argsRest == <<at, dir, device, iteration, log, imbalanced, hr, bindVars, csvVars,
              rawVars, thrVars, outVars>>

ToggleCPU(useCPU) ==
    /\ args' = [args EXCEPT !.m_useCPU = useCPU]
    /\ UNCHANGED argsRest

ToggleGPU(useGPU) ==
    /\ args' = [args EXCEPT !.m_useGPU = useGPU]
    /\ UNCHANGED argsRest

ToggleGPUHighPerformance(useGPUHighPerformance) ==
    /\ args' = [args EXCEPT !.m_useGPUHighPerformance = useGPUHighPerformance]
    /\ UNCHANGED argsRest

ToggleUseGPUMinPower(useGPUMinPower) ==
    /\ args' = [args EXCEPT !.m_useGPUMinPower = useGPUMinPower]
    /\ UNCHANGED argsRest

ToggleCreateDeviceOnClient(createDeviceOnClient) ==
    /\ args' = [args EXCEPT !.m_createDeviceOnClient = createDeviceOnClient]
    /\ UNCHANGED argsRest

ToggleCreateDeviceInWinML(createDeviceInWinML) ==
    /\ args' = [args EXCEPT !.m_createDeviceInWinML = createDeviceInWinML]
    /\ UNCHANGED argsRest

ToggleCPUBoundInput(useCPUBoundInput) ==
    /\ args' = [args EXCEPT !.m_useCPUBoundInput = useCPUBoundInput]
    /\ UNCHANGED argsRest

ToggleGPUBoundInput(useGPUBoundInput) ==
    /\ args' = [args EXCEPT !.m_useGPUBoundInput = useGPUBoundInput]
    /\ UNCHANGED argsRest

ToggleUseRGB(useRGBImage) ==
    /\ args' = [args EXCEPT !.m_useRGB = useRGBImage]
    /\ UNCHANGED argsRest

ToggleUseBGR(useBGRImage) ==
    /\ args' = [args EXCEPT !.m_useBGR = useBGRImage]
    /\ UNCHANGED argsRest

ToggleUseTensor(useTensor) ==
    /\ args' = [args EXCEPT !.m_useTensor = useTensor]
    /\ UNCHANGED argsRest

SetRunIterations(iterations) ==
    /\ args' = [args EXCEPT !.m_numIterations = iterations]
    /\ UNCHANGED argsRest

NextArgs ==
    \/ \E b \in BOOLEAN : ToggleCPU(b)
    \/ \E b \in BOOLEAN : ToggleGPU(b)
    \/ \E b \in BOOLEAN : ToggleGPUHighPerformance(b)
    \/ \E b \in BOOLEAN : ToggleUseGPUMinPower(b)
    \/ \E b \in BOOLEAN : ToggleCreateDeviceOnClient(b)
    \/ \E b \in BOOLEAN : ToggleCreateDeviceInWinML(b)
    \/ \E b \in BOOLEAN : ToggleCPUBoundInput(b)
    \/ \E b \in BOOLEAN : ToggleGPUBoundInput(b)
    \/ \E b \in BOOLEAN : ToggleUseRGB(b)
    \/ \E b \in BOOLEAN : ToggleUseBGR(b)
    \/ \E b \in BOOLEAN : ToggleUseTensor(b)
    \/ \E iterations \in 0..MaxRunIterations : SetRunIterations(iterations)

SpecArgs == InitArgs /\ [][NextArgs]_vars

----------------------------------------------------------------------------
(* Properties of CommandLineArgs                                           *)

\* C23: with an image path and none of the RGB, BGR and tensor flags set, the
\* input data type selected is BGR and not RGB
C23_ImageDefaultsToBGR ==
    (args.m_imagePaths # <<>> /\ ~args.m_useRGB /\ ~args.m_useBGR /\ ~args.m_useTensor) =>
        UseBGR(args) /\ ~UseRGB(args)

\* C25: after the construction and after every sequence of setters,
\* NumIterations() is at least 1
C25_AtLeastOneIteration == NumIterations(args) >= 1

\* the number of input source predicates that hold
SourcesSelected(a) ==
    (IF IsGarbageInput(a) THEN 1 ELSE 0) + (IF IsCSVInput(a) THEN 1 ELSE 0)
    + (IF IsImageInput(a) THEN 1 ELSE 0)

\* C26: for every combination of image paths and CSV path exactly one of
\* IsGarbageInput(), IsCSVInput(), IsImageInput() holds, and IsGarbageInput()
\* holds exactly when neither an image nor a CSV path is given
C26_ExactlyOneInputSource ==
    /\ SourcesSelected(args) = 1
    /\ IsGarbageInput(args) <=> (args.m_imagePaths = <<>> /\ args.m_csvData = "")

\* C30: for every combination of flags each dimension of the configuration
\* matrix has a point: UseCPU() or UseGPU(), UseCPUBoundInput() or the
\* GPU-bound-input flag, CreateDeviceInWinML() or the create-device-on-client
\* flag, one of UseTensor(), UseRGB(), UseBGR(); and with no device flag both
\* UseCPU() and UseGPU() hold
C30_EveryDimensionHasAPoint ==
    /\ UseCPU(args) \/ UseGPU(args)
    /\ UseCPUBoundInput(args) \/ IsUsingGPUBoundInput(args)
    /\ CreateDeviceInWinML(args) \/ IsCreateDeviceOnClient(args)
    /\ UseTensor(args) \/ UseRGB(args) \/ UseBGR(args)
    /\ (~args.m_useCPU /\ ~args.m_useGPU /\ ~args.m_useGPUHighPerformance
        /\ ~args.m_useGPUMinPower) => (UseCPU(args) /\ UseGPU(args))

----------------------------------------------------------------------------
(* OutputSequenceBinding (BindingUtilities.h): the entry of the first map  *)
(* of a sequence output that is printed as the result.                     *)

\* values of the map (V = float)
MapValues == {0, 1, 3}

RECURSIVE PairsOf(_, _)
\* the pairs of the map f over the keys, in the order map.First() gives them
PairsOf(keys, f) ==
    IF keys = {} THEN <<>>
    ELSE LET k == CHOOSE x \in keys : \A y \in keys : x <= y
         IN  <<<<k, f[k]>>>> \o PairsOf(keys \ {k}, f)

SequenceMaps ==
    UNION {{PairsOf(keys, f) : f \in [keys -> MapValues]} : keys \in SUBSET (0..MaxKey)}

RECURSIVE MaxScan(_, _, _)
\* the while loop over the iterator: the locals maxKey and maxVal at its end
MaxScan(pairs, maxKey, maxVal) ==
    IF pairs = <<>> THEN <<maxKey, maxVal>>
    ELSE IF Head(pairs)[2] > maxKey
         THEN MaxScan(Tail(pairs), Head(pairs)[1], Head(pairs)[2])
         ELSE MaxScan(Tail(pairs), maxKey, maxVal)

\* std::cout << " " << maxKey << " " << maxVal << std::endl
PrintedEntry(maxKey, maxVal) == " " \o ToString(maxKey) \o " " \o ToString(maxVal)

InitSeq ==
    /\ results \in SequenceMaps
    /\ fault = "none"
    /\ m_csvFileNamePerIteration = ""
    /\ iterFile = <<>>
    /\ m_clockLoadTimes = <<>>
    /\ m_Result = <<>>
    /\ m_Hash = <<>>
    /\ m_CPUWorkingDiff = <<>>
    /\ profiler = NewProfiler
    /\ console = <<>>
    /\ m_silent = FALSE
    /\ IdleBind /\ IdleCsv /\ IdleRaw /\ IdleThr /\ IdleRun

OutputSequenceBinding ==
    /\ console = <<>>
    /\ LET found == MaxScan(results, -1, -1)
       IN  console' = Append(console, <<PrintedEntry(found[1], found[2])>>)
    /\ UNCHANGED <<m_csvFileNamePerIteration, iterFile, m_clockLoadTimes, m_Result,
                   m_Hash, m_CPUWorkingDiff, profiler, m_silent, results, fault>>
    /\ UNCHANGED <<bindVars, csvVars, rawVars, thrVars, runVars>>

NextSeq == OutputSequenceBinding

SpecSeq == InitSeq /\ [][NextSeq]_vars

\* the largest value of the pairs
MaxValue(pairs) ==
    CHOOSE v \in {pairs[k][2] : k \in 1..Len(pairs)} :
        \A k \in 1..Len(pairs) : pairs[k][2] <= v

\* C29: for every non-empty map, the entry OutputSequenceBinding prints has
\* the largest value of the map and a key that maps to that value
C29_PrintsTheMaximalEntry ==
    (console # <<>> /\ results # <<>>) =>
        \E k \in 1..Len(results) :
            /\ results[k][2] = MaxValue(results)
            /\ console[1][1] = PrintedEntry(results[k][1], results[k][2])

----------------------------------------------------------------------------
(* OutputHelper (OutputHelper.h): the vectors indexed by the iteration     *)
(* number, from the constructor through SaveEvalTimes, SaveResult, the     *)
(* resets and the per-iteration writer.  An access outside a vector is     *)
(* undefined: the process goes on with the vector as it was, or dies.      *)

InitMem ==
    /\ \E num \in 1..MaxSamples :
          /\ args = [CommandLineArgs(<<>>, "") EXCEPT !.m_numIterations = num]
          /\ m_CPUWorkingDiff = [k \in 1..num |-> "0"]
    /\ m_csvFileNamePerIteration = ""
    /\ iterFile = File(FALSE, <<>>)
    /\ m_clockLoadTimes = <<>>
    /\ m_Result = <<>>
    /\ m_Hash = <<>>
    /\ m_silent = FALSE
    /\ results = <<>>
    /\ fault = "none"
    /\ profiler = NewProfiler
    /\ console = <<>>
    /\ at = "idle"
    /\ dir = <<>>
    /\ device = "none"
    /\ iteration = 0
    /\ log = <<>>
    /\ imbalanced = FALSE
    /\ hr = "none"
    /\ IdleBind /\ IdleCsv /\ IdleRaw /\ IdleThr

memRest == <<args, at, dir, device, log, imbalanced, hr, bindVars, rawVars, thrVars,
             files, m_csvFileName, m_clockLoadTime, csvRest, profiler, console,
             m_silent, results, m_csvFileNamePerIteration>>

\* SaveEvalTimes(profiler, IterNum): m_CPUWorkingDiff[IterNum] = ..., and the
\* same for the four other memory vectors
SaveEvalTimes(IterNum) ==
    /\ IF IterNum < Len(m_CPUWorkingDiff)
       THEN /\ m_CPUWorkingDiff' = [m_CPUWorkingDiff EXCEPT ![IterNum + 1] = "1"]
            /\ fault' = fault
       ELSE /\ m_CPUWorkingDiff' = m_CPUWorkingDiff
            /\ fault' \in {"undefined", "crashed"}
    /\ UNCHANGED <<iterFile, m_clockLoadTimes, m_Result, m_Hash, iteration,
                   m_clockBindTimes, m_clockEvalTimes>>
    /\ UNCHANGED memRest

\* the caller's m_clockBindTimes.push_back / m_clockEvalTimes.push_back of
\* one iteration
PushTimes(bind, eval) ==
    /\ Len(m_clockEvalTimes) < NumIterations(args)
    /\ m_clockBindTimes' = Append(m_clockBindTimes, bind)
    /\ m_clockEvalTimes' = Append(m_clockEvalTimes, eval)
    /\ UNCHANGED <<iterFile, m_clockLoadTimes, m_Result, m_Hash, iteration,
                   m_CPUWorkingDiff, fault>>
    /\ UNCHANGED memRest

\* SaveResult(IterRes, TensorHash) with the results of every iteration
SaveResults ==
    /\ m_Result' = [k \in 1..NumIterations(args) |-> "ok"]
    /\ m_Hash' = [k \in 1..NumIterations(args) |-> "0"]
    /\ UNCHANGED <<iterFile, m_clockLoadTimes, iteration, m_CPUWorkingDiff, fault,
                   m_clockBindTimes, m_clockEvalTimes>>
    /\ UNCHANGED memRest

ResetBindAndEvalTImes ==
    /\ iteration < MaxResets
    /\ iteration' = iteration + 1
    /\ m_clockBindTimes' = <<>>
    /\ m_clockEvalTimes' = <<>>
    /\ UNCHANGED <<iterFile, m_clockLoadTimes, m_Result, m_Hash,
                   m_CPUWorkingDiff, fault>>
    /\ UNCHANGED memRest

ResetMemoryAndResult ==
    /\ iteration < MaxResets
    /\ iteration' = iteration + 1
    /\ m_CPUWorkingDiff' = <<>>
    /\ m_Result' = <<>>
    /\ m_Hash' = <<>>
    /\ UNCHANGED <<iterFile, m_clockLoadTimes, fault, m_clockBindTimes,
                   m_clockEvalTimes>>
    /\ UNCHANGED memRest

NextMem ==
    \/ /\ Running /\ m_csvFileNamePerIteration = "" /\ iterFile.lines = <<>>
       /\ SetDefaultCSVFileNamePerIteration
    \/ /\ Running
       /\ \E IterNum \in 0..(NumIterations(args) - 1) : SaveEvalTimes(IterNum)
    \/ Running /\ PushTimes(<<1, 1>>, <<2, 1>>)
    \/ Running /\ SaveResults
    \/ Running /\ ResetBindAndEvalTImes
    \/ Running /\ ResetMemoryAndResult
    \* the caller reports a configuration when its iterations are measured
    \* and their results saved
    \/ /\ Running /\ Len(iterFile.lines) <= NumIterations(args) * MaxOutCalls
       /\ Len(m_Result) = NumIterations(args)
       /\ Len(m_clockEvalTimes) = NumIterations(args)
       /\ WritePerformanceDataToCSVPerIteration(NumIterations(args), "model.onnx", "")

SpecMem == InitMem /\ [][NextMem]_vars

\* C27: after every sequence of OutputHelper operations, the second
\* configuration after a reset included, no access was made outside the
\* bounds of a vector: SaveEvalTimes(i) with i < num wrote existing elements
\* and the per-iteration writer read existing elements for every i below
\* NumIterations
C27_EveryIndexInBounds == fault = "none"

====
